---------------------------- MODULE Spec2Model ----------------------------
(***************************************************************************)
(* The gasless voting relay of the Alphin DAO bot.                         *)
(*                                                                         *)
(* BlockchainManager.castVote  (src/modules/blockchain/blockchainManager.js)*)
(* BlockchainService.voteOnProposal and its helpers                        *)
(*                             (src/modules/blockchain/blockchainService.js)*)
(* against an OpenZeppelin style Governor (one proposal, a few voters).    *)
(*                                                                         *)
(* Every await of the JavaScript code is a suspension point; each chain    *)
(* round trip is one atomic action, so that concurrent castVote calls      *)
(* interleave between their chain calls.  Error messages are sequences of  *)
(* tokens and String.includes is a search for a contiguous run of tokens.  *)
(***************************************************************************)
EXTENDS Integers, Sequences, FiniteSets, TLC

(*************************** bounds of the model ***************************)
\* number of castVote invocations (sequential or concurrent)
MaxCalls == 2

Calls == 1..MaxCalls

(***************************** the participants ****************************)
Voters == {"alice", "bob"}
\* the relay wallet (this.adminWallet)
Admin == "admin"
Addresses == Voters \cup {Admin}
\* a castVote call made without a wallet (userWallet is null)
NoWallet == "null"
\* the proposal on chain, and the falsy proposal id a caller may pass
TheProposal == "proposal-1"
NoProposal == ""
\* the vote types 0 = Against, 1 = For, 2 = Abstain
VoteTypes == {0, 1, 2}
\* blocks at which voting power is read: the proposal's snapshot and the head
SnapshotBlock == "snapshot"
LatestBlock == "latest"

(******************************* messages **********************************)
Min(a, b) == IF a < b THEN a ELSE b

\* String.prototype.includes on token sequences
Includes(msg, pat) ==
    \E i \in 1..(Len(msg) - Len(pat) + 1) : SubSeq(msg, i, i + Len(pat) - 1) = pat

\* String.prototype.substring(0, n)
Substring(msg, n) == SubSeq(msg, 1, Min(n, Len(msg)))

\* the tokens after the last ":" (message.split(':').pop().trim())
AfterLastColon(msg) ==
    LET cols == {i \in 1..Len(msg) : msg[i] = ":"}
        last == CHOOSE i \in cols : \A j \in cols : j <= i
    IN  SubSeq(msg, last + 1, Len(msg))

\* the length handleVoteError cuts a raw message to
SystemErrorMaxLen == 100

\* what the chain and the RPC library may answer
RpcError == <<"could", "not", "detect", "network">>
SimulationUnsupported == <<"Contract", "with", "a", "Signer", "cannot", "override", "from">>
RevertAlreadyCastV4 ==
    <<"execution", "reverted", ":", "GovernorVotingSimple", ":", "vote", "already", "cast">>
RevertAlreadyCastV5 == <<"execution", "reverted", ":", "Governor", "AlreadyCast", "Vote">>
RevertAlreadyCastVote ==
    <<"call", "revert", "exception", ":", "Governor", ":", "already", "cast", "vote">>
RevertNotActive ==
    <<"execution", "reverted", ":", "Governor", ":", "vote", "not", "currently", "active">>
TransactionFailed == <<"transaction", "failed">>
NonceTooLow == <<"nonce", "has", "already", "been", "used">>
SigningFailed == <<"invalid", "typed", "data">>

\* the revert messages of a duplicate vote, by contract and library version
AlreadyCastReverts == {RevertAlreadyCastV4, RevertAlreadyCastV5, RevertAlreadyCastVote}

\* messages shown to the user
MsgNotActive == <<"This", "proposal", "is", "not", "currently", "active", "for", "voting">>
MsgAlreadyVoted == <<"You", "have", "already", "voted", "on", "this", "proposal">>
MsgNoVotingPower ==
    <<"You", "had", "no", "voting", "power", "at", "the", "time", "this", "proposal",
      "was", "created", ".", "Make", "sure", "your", "tokens", "were", "delegated",
      "before", "the", "proposal", "was", "created", ".">>
NoError == <<>>

(******************************* results ***********************************)
\* a result object without a method property
NoMethod == "undefined"
NoTx == <<>>
\* the mock hash of a vote made with the blockchain features disabled
MockTx == <<"mock">>
\* the hash of the transaction call c got accepted by the node
TxHash(c) == <<"tx", c>>

Result(ok, m, err, tx) == [success |-> ok, method |-> m, error |-> err, txHash |-> tx]
NoResult == Result(FALSE, "none", NoError, NoTx)

\* how a call of castVote ends: it returns value, or it throws value.error
Returns(r) == [thrown |-> FALSE, value |-> r]
Throws(msg) == [thrown |-> TRUE, value |-> Result(FALSE, NoMethod, msg, NoTx)]

(************************* the code's pure parts ***************************)
\* validateProposalState: the names indexed by the state ordinal
StateNames ==
    <<"Pending", "Active", "Canceled", "Defeated", "Succeeded", "Queued", "Expired",
      "Executed">>

\* states[proposalState] of a JavaScript array
StateName(s) == IF s \in 0..(Len(StateNames) - 1) THEN StateNames[s + 1] ELSE "undefined"

\* the state ordinal of a proposal open for voting
ActiveState == 1

\* validateProposalState throws this unless the state read is 1
NotActiveError(s) ==
    <<"Proposal", "is", "not", "in", "active", "state", ".", "Current", "state", ":",
      StateName(s)>>

\* faulty variant: the check never throws
validateProposalStateNeverThrows(s) == NoError

\* faulty variant: the check lets a Pending proposal (ordinal 0) through
validateProposalStateAllowsPending(s) ==
    IF s > ActiveState THEN NotActiveError(s) ELSE NoError

\* validateProposalState, given the ordinal that governor.state() returned:
\* the message it throws, or NoError
validateProposalStateThrows(s) == IF s # ActiveState THEN NotActiveError(s) ELSE NoError

\* simulateVote throws this when the dry run reverts as a duplicate
UserAlreadyVotedError == <<"User", "has", "already", "voted", "on", "this", "proposal">>

\* simulateVote's test of the dry run's error
simulateVoteDetects(msg) ==
    \/ Includes(msg, <<"already", "cast", "vote">>)
    \/ Includes(msg, <<"AlreadyCast">>)
    \/ Includes(msg, <<"already", "voted">>)

\* simulateVote, given the error of the dry run (NoError: it did not revert):
\* the message it throws, or NoError when it only logs
simulateVoteThrows(msg) ==
    IF msg # NoError /\ simulateVoteDetects(msg) THEN UserAlreadyVotedError ELSE NoError

\* checkVotingPowerAtSnapshot throws this when the power read is zero
NoVotingPowerError ==
    <<"User", "had", "no", "voting", "power", "at", "the", "proposal", "snapshot", ".",
      "Make", "sure", "tokens", "were", "delegated", "before", "the", "proposal", "was",
      "created", ".">>

\* faulty variant: the power is read at the head block (current power)
PowerCheckAtHead(snapshotBlock) == LatestBlock

\* checkVotingPowerAtSnapshot: the block whose voting power it asks for, given
\* the block that governor.proposalSnapshot() returned
PowerCheckBlock(snapshotBlock) == snapshotBlock

\* votingPower.isZero()
checkVotingPowerThrows(votingPower) ==
    IF votingPower = 0 THEN NoVotingPowerError ELSE NoError

\* the catch block of voteWithMetaTransaction: the message it rethrows
voteWithMetaTransactionCatch(msg) ==
    IF Includes(msg, <<"execution", "reverted">>)
    THEN <<"Vote", "failed", ":">> \o
         (IF Includes(msg, <<":">>) THEN AfterLastColon(msg)
          ELSE <<"Transaction", "reverted">>)
    ELSE msg

\* handleVoteError: the result built from an error caught by voteOnProposal
handleVoteError(msg) ==
    IF Includes(msg, <<"not", "in", "active", "state">>)
    THEN Result(FALSE, "validation", MsgNotActive, NoTx)
    ELSE IF \/ Includes(msg, <<"already", "voted">>)
            \/ Includes(msg, <<"AlreadyCast">>)
            \/ Includes(msg, <<"already", "cast", "vote">>)
    THEN Result(FALSE, "validation", MsgAlreadyVoted, NoTx)
    ELSE IF Includes(msg, <<"no", "voting", "power">>)
    THEN Result(FALSE, "validation", MsgNoVotingPower, NoTx)
    ELSE Result(FALSE, "system-error",
                <<"System", "error", ":">> \o Substring(msg, SystemErrorMaxLen), NoTx)

\* faulty variant: every failure of the meta-transaction tier is reported as
\* the voter having voted already
metaTxFailedAlwaysValidation(msg) == Result(FALSE, "validation", MsgAlreadyVoted, NoTx)

\* voteOnProposal, catch (metaTxError): the result returned when the
\* meta-transaction tier threw msg
metaTxFailed(msg) ==
    IF \/ Includes(msg, <<"already", "cast">>)
       \/ Includes(msg, <<"AlreadyCast">>)
       \/ Includes(msg, <<"already", "voted">>)
    THEN Result(FALSE, "validation", MsgAlreadyVoted, NoTx)
    ELSE Result(FALSE, "all-methods-failed", msg, NoTx)

\* faulty variant: the fields of voteWithMetaTransaction's result are not
\* spread into the result
metaTxSucceededDropsReceipt(tx) == Result(TRUE, "meta-transaction", NoError, NoTx)

\* voteOnProposal: the result returned when voteWithMetaTransaction returned
\* {txHash, blockNumber, success}: the spread, then success and method
metaTxSucceeded(tx) == Result(TRUE, "meta-transaction", NoError, tx)

\* voteOnProposal with the blockchain features disabled
simulatedVote == Result(TRUE, "simulation", NoError, MockTx)

\* the tiers voteOnProposal goes through after a successful validation
VoteTiers == <<"meta-transaction">>

\* faulty variant: the ballot is signed with the relay wallet's key
BallotSignedByRelay(userWallet, adminWallet) == adminWallet

\* voteWithMetaTransaction: the key that signs the ballot, given the voter's
\* wallet and the relay wallet
BallotSigner(userWallet, adminWallet) == userWallet

\* voteWithMetaTransaction: the account that submits castVoteBySig and pays
BallotSubmitter(userWallet, adminWallet) == adminWallet

\* faulty variant: the catch block rethrows, as castVote once did
castVoteCatchRethrows(msg) == Throws(<<"Failed", "to", "cast", "vote", ":">> \o msg)

\* BlockchainManager.castVote, catch (error)
castVoteCatch(msg) == Returns(Result(FALSE, NoMethod, msg, NoTx))

\* BlockchainManager.castVote: what it throws before it calls the service
InvalidProposalId == <<"Invalid", "proposal", "ID">>
NullWalletTypeError ==
    <<"Cannot", "read", "properties", "of", "null", "(", "reading", "address", ")">>

castVoteChecks(proposalId, userWallet) ==
    IF userWallet = NoWallet THEN NullWalletTypeError
    ELSE IF proposalId = NoProposal THEN InvalidProposalId
    ELSE NoError

\* faulty variant: the receipt of a reverted transaction is returned instead
\* of thrown, and success:true overrides its status
metaTxTierTrustsReceipt(status, tx, err) ==
    IF status \in {"ok", "duplicate", "inactive"} THEN metaTxSucceeded(tx)
    ELSE metaTxFailed(voteWithMetaTransactionCatch(err))

\* voteOnProposal around voteWithMetaTransaction.  status is how the tier
\* went: "ok" when the transaction tx was included and succeeded, "duplicate"
\* or "inactive" when it was included and reverted (tx.wait() then rejects
\* with err), "threw" when a step before or the wait itself rejected with err
metaTxTier(status, tx, err) ==
    IF status = "ok" THEN metaTxSucceeded(tx)
    ELSE metaTxFailed(voteWithMetaTransactionCatch(err))

(******************* delegation: the code's pure parts **********************)
\* number of token operations (delegateVotes or sendWelcomeTokens calls)
MaxDCalls == 2

DCalls == 1..MaxDCalls

\* ethers.constants.AddressZero: the delegatee of an account that never delegated
ZeroAddress == "0x0"
\* process.env.WELCOME_TOKENS || "10"
WelcomeTokens == 10
\* the tokens the relay wallet holds at the start
AdminSupply == 10
\* the last index of the retry loop of sendWelcomeTokensWithDelegation (i < 3)
LastDelegationAttempt == 2

\* ethers.utils.formatUnits(balance, decimals): a decimal string with a
\* fraction part ("0.0" for zero)
FormatUnits(balance) == <<balance, ".", 0>>
\* the string '0' the balance after the transfer is compared with
ZeroString == <<0>>

BlockchainDisabled == <<"Blockchain", "features", "are", "disabled">>
NoTokensToDelegate == <<"No", "tokens", "to", "delegate">>
FailedToDelegate == <<"Failed", "to", "delegate", "votes", ":">>
MsgDelegationUnsupported ==
    <<"Token", "delegation", "failed", ".", "This", "usually", "happens", "because", "the",
      "token", "contract", "does", "not", "support", "delegation", "by", "the", "admin",
      "wallet", ".">>
RevertInvalidNonce == <<"execution", "reverted", ":", "ERC20Votes", ":", "invalid", "nonce">>
InsufficientAdminBalance == <<"Insufficient", "admin", "balance", "for", "transfer">>

\* the hash of the n-th delegation transaction of token operation d, and of
\* its token transfer
DTxHash(d, n) == <<"delegation", d, n>>
TransferTxHash(d) == <<"transfer", d>>

\* the object delegateVotes returns; a property that is absent reads as
\* FALSE (delegationError), NoError (message), NoTx or NoMethod
DelegationResult(status, derr, msg, tx, m) ==
    [status |-> status, delegationError |-> derr, message |-> msg, txHash |-> tx,
     method |-> m]
NoDelegationResult == DelegationResult("none", FALSE, NoError, NoTx, NoMethod)

\* delegateVotes and delegateVotesBySig with the blockchain features disabled
delegationDisabled == DelegationResult("error", FALSE, BlockchainDisabled, NoTx, NoMethod)

\* delegateVotes when balance.isZero()
noTokensToDelegate == DelegationResult("error", TRUE, NoTokensToDelegate, NoTx, NoMethod)

\* delegateVotes: the result of a confirmed adminDelegateFor transaction
adminDelegationSucceeded(tx) == DelegationResult("success", FALSE, NoError, tx, "admin-delegation")

\* delegateVotesBySig: the result of a confirmed delegateBySig transaction
delegateBySigSucceeded(tx) == DelegationResult("success", FALSE, NoError, tx, "meta-transaction")

\* delegateVotesBySig, catch (error)
delegateVotesBySigCatch(msg) ==
    DelegationResult("error", TRUE, FailedToDelegate \o msg, NoTx, "meta-transaction-failed")

\* faulty variant: the catch block of delegateVotes rethrows
delegateVotesCatchRethrows(msg) ==
    [thrown |-> TRUE, value |-> DelegationResult("error", FALSE, FailedToDelegate \o msg, NoTx, NoMethod)]

\* delegateVotes, catch (error)
delegateVotesCatch(msg) ==
    Returns(IF Includes(msg, <<"execution", "reverted">>)
            THEN DelegationResult("error", TRUE, MsgDelegationUnsupported, NoTx, NoMethod)
            ELSE DelegationResult("error", TRUE, FailedToDelegate \o msg, NoTx, NoMethod))

\* delegateVotesBySig: the wallet whose key signs the Delegation payload.  The
\* branch for a delegator other than the relay wallet also takes the relay
\* wallet ("simulate by using the admin wallet")
DelegationSigner(delegatorAddress, adminWallet) ==
    IF delegatorAddress = adminWallet THEN adminWallet ELSE adminWallet

\* delegateVotesBySig: the account that submits delegateBySig and pays
DelegationSubmitter(delegatorAddress, adminWallet) == adminWallet

\* faulty variant: the grant is reported as failed when the delegation failed
welcomeResultNeedsDelegation(tx, delegated) ==
    IF delegated THEN [status |-> "success", txHash |-> tx, delegation |-> "success"]
    ELSE [status |-> "error", txHash |-> NoTx, delegation |-> "undefined"]

\* faulty variant: the delegation is reported as successful without the read
welcomeResultAlwaysDelegated(tx, delegated) ==
    [status |-> "success", txHash |-> tx, delegation |-> "success"]

\* sendWelcomeTokensWithDelegation, finalResult: the transfer's hash and the
\* outcome of the delegation loop
welcomeResult(tx, delegated) ==
    [status |-> "success", txHash |-> tx,
     delegation |-> IF delegated THEN "success" ELSE "failed"]

\* sendWelcomeTokensWithDelegation, catch (error), and its answer when the
\* blockchain features are disabled: no txHash and no delegation property
welcomeError == [status |-> "error", txHash |-> NoTx, delegation |-> "undefined"]
NoWelcomeResult == [status |-> "none", txHash |-> NoTx, delegation |-> "undefined"]

\* BlockchainManager.sendWelcomeTokens: the object it returns
managerWelcomeResult(txResult, delegationSuccess) ==
    [success |-> TRUE, txHash |-> txResult.txHash, delegationSuccess |-> delegationSuccess]
NoManagerResult == [success |-> FALSE, txHash |-> NoTx, delegationSuccess |-> FALSE]

(******************************** state ************************************)
VARIABLES
    blockchainEnabled,  \* BlockchainService.blockchainEnabled
    proposalState,      \* governor.state(proposal), an ordinal 0..7
    snapshotVotes,      \* voting power of each address at the snapshot block
    currentVotes,       \* voting power of each address at the head block
    ledger,             \* the votes the governor has recorded
    call,               \* the castVote invocations
    adminDelegateFor,   \* what tokenContract.adminDelegateFor is in this deployment
    delegates,          \* token.delegates(account)
    tokenNonces,        \* token.nonces(account), the counter delegateBySig checks
    balances,           \* token.balanceOf(account)
    dcall,              \* the delegateVotes and sendWelcomeTokens invocations
    relayNonce,         \* the node's transaction count of the relay wallet ("pending")
    relayTx,            \* the transactions the relay wallet is asked to send
    stateNum,           \* the ordinal given to the state mapping
    described,          \* what the two state mappings made of stateNum
    errorMsg,           \* the raw error given to sanitizeErrorForTelegram
    maxLength,          \* its maxLength argument
    sanitized,          \* the string it returned
    blockNumber,        \* the head block of the chain
    lifecycle,          \* the governor's record of the proposal
    reader,             \* the getProposalState calls and what they reported
    userVotes,          \* the user_votes table: the row of each user for the proposal
    chainVoters,        \* the users whose vote the governor has recorded
    flow,               \* the handleVoteAction invocations
    usersTable,         \* the users table: the wallet_address of each telegram_id
    walletFiles,        \* <walletDir>/<telegramId>.json: the address of the key it holds
    conversationStates, \* TextProcessor.conversationStates
    task,               \* the message handlers in flight
    invoked,            \* how often callbacks and sendWelcomeTokens were invoked
    governorState,      \* the state of the monitored proposal, as getProposalState names it
    proposalCache,      \* the state column of the proposal's row in proposal_cache
    run,                \* the checkProposalStates runs
    announced,          \* how often each state was announced to the community group
    cacheWriter,        \* handleVoteAction's update of the cache after a vote
    finalize            \* the verifyApprovalsAndFinalizeProposal calls

voteVars == <<proposalState, snapshotVotes, currentVotes, ledger, call>>
delegationVars == <<adminDelegateFor, delegates, tokenNonces, balances, dcall>>
relayVars == <<relayNonce, relayTx>>
stateMapVars == <<stateNum, described>>
sanitizerVars == <<errorMsg, maxLength, sanitized>>
lifecycleVars == <<blockNumber, lifecycle, reader>>
historyVars == <<userVotes, chainVoters, flow>>
joinVars == <<usersTable, walletFiles, conversationStates, task, invoked>>
governanceVars == <<governorState, proposalCache, run, announced, cacheWriter, finalize>>

vars ==
    <<blockchainEnabled, voteVars, delegationVars, relayVars, stateMapVars, sanitizerVars,
      lifecycleVars, historyVars, joinVars, governanceVars>>

\* the variables that castVote and the governor leave alone
outsideVote ==
    <<delegationVars, relayVars, stateMapVars, sanitizerVars, lifecycleVars, historyVars,
      joinVars, governanceVars>>
\* the variables that the token operations leave alone
outsideDelegation ==
    <<voteVars, relayVars, stateMapVars, sanitizerVars, lifecycleVars, historyVars,
      joinVars, governanceVars>>
\* the variables that the relay wallet's submissions leave alone
outsideRelay ==
    <<blockchainEnabled, voteVars, delegationVars, stateMapVars, sanitizerVars, lifecycleVars,
      historyVars, joinVars, governanceVars>>
\* the variables that the state mappings leave alone
outsideStateMap ==
    <<blockchainEnabled, voteVars, delegationVars, relayVars, sanitizerVars, lifecycleVars,
      historyVars, joinVars, governanceVars>>
\* the variables that sanitizeErrorForTelegram leaves alone
outsideSanitizer ==
    <<blockchainEnabled, voteVars, delegationVars, relayVars, stateMapVars, lifecycleVars,
      historyVars, joinVars, governanceVars>>
\* the variables that getProposalState and the proposal's lifecycle leave alone
outsideLifecycle ==
    <<voteVars, delegationVars, relayVars, stateMapVars, sanitizerVars, historyVars,
      joinVars, governanceVars>>
\* the variables that handleVoteAction and the vote history leave alone
outsideHistory ==
    <<voteVars, delegationVars, relayVars, stateMapVars, sanitizerVars, lifecycleVars,
      joinVars, governanceVars>>
\* the variables that the join dialogue and the wallets leave alone
outsideJoin ==
    <<blockchainEnabled, voteVars, delegationVars, relayVars, stateMapVars, sanitizerVars,
      lifecycleVars, historyVars, governanceVars>>
\* the variables that the proposal monitor and the finalization leave alone
outsideGovernance ==
    <<voteVars, delegationVars, relayVars, stateMapVars, sanitizerVars, lifecycleVars,
      historyVars, joinVars>>

\* the voting power one grant of tokens gives
MaxPower == 2
\* the voters whose tokens were granted and delegated after the snapshot was
\* taken: no voting power at the snapshot block, MaxPower at the head block
LateHolders == {"bob"}

IdleCall ==
    [pc |-> "idle", userWallet |-> NoWallet, proposalId |-> NoProposal, voteType |-> 0,
     votedBefore |-> FALSE, stateRead |-> -1, simulation |-> "none",
     powerRead |-> -1, powerBlock |-> "none", tiers |-> <<>>, signer |-> "none",
     submitter |-> "none", sends |-> 0, gas |-> "none", tx |-> "none",
     failedAt |-> "none", result |-> NoResult, thrown |-> FALSE]

\* number of transactions the relay wallet is asked to send concurrently
MaxRequests == 3

Requests == 1..MaxRequests
IdleRequest == [pc |-> "idle", kind |-> "none", nonce |-> -1]

\* the outputs of the state mappings before they are applied
NotDescribed == [lifecycle |-> "none", validator |-> "none"]

\* the output of sanitizeErrorForTelegram before it is applied
NotSanitized == <<"none">>

\* the proposal as the governor holds it after propose(): nothing cancelled,
\* queued or executed, no votes
NewProposal ==
    [canceled |-> FALSE, queued |-> FALSE, executed |-> FALSE, forVotes |-> 0,
     againstVotes |-> 0]
\* what a getProposalState call read: nothing yet
NothingSeen == [stateNum |-> -1, currentBlock |-> -1, forVotes |-> -1, againstVotes |-> -1]
IdleReader == [pc |-> "idle", reports |-> <<>>, path |-> "none", seen |-> NothingSeen]

IdleDCall ==
    [pc |-> "idle", kind |-> "none", delegator |-> "none", delegatee |-> "none",
     ret |-> "none", attempt |-> 0, txs |-> 0, nonceRead |-> -1, signer |-> "none",
     submitter |-> "none", effectOn |-> "none", rpcFailed |-> FALSE, priorOk |-> FALSE,
     before |-> "none", after |-> "none", result |-> NoDelegationResult,
     thrown |-> FALSE, transferTx |-> NoTx, balanceAfter |-> NoError,
     loopDelegated |-> FALSE,
     welcome |-> NoWelcomeResult, manager |-> NoManagerResult]

\* no castVote call was made and the proposal is Pending
VoteIdle ==
    /\ proposalState = 0
    /\ snapshotVotes = [a \in Addresses |-> IF a \in LateHolders THEN 0 ELSE MaxPower]
    /\ currentVotes = [a \in Addresses |-> MaxPower]
    /\ ledger = {}
    /\ call = [c \in Calls |-> IdleCall]

\* no token operation was made
DelegationIdle ==
    /\ adminDelegateFor = "works"
    /\ delegates = [a \in Addresses |-> ZeroAddress]
    /\ tokenNonces = [a \in Addresses |-> 0]
    /\ balances = [a \in Addresses |-> IF a = Admin THEN AdminSupply ELSE 0]
    /\ dcall = [d \in DCalls |-> IdleDCall]

\* the relay wallet was not asked to send anything
RelayIdle ==
    /\ relayNonce = 0
    /\ relayTx = [r \in Requests |-> IdleRequest]

\* the state mappings were not applied
StateMapIdle ==
    /\ stateNum = 0
    /\ described = NotDescribed

\* sanitizeErrorForTelegram was not applied
SanitizerIdle ==
    /\ errorMsg = <<>>
    /\ maxLength = 0
    /\ sanitized = NotSanitized

\* getProposalState was not called
LifecycleIdle ==
    /\ blockNumber = 0
    /\ lifecycle = NewProposal
    /\ reader = IdleReader

\* number of handleVoteAction invocations
MaxFlows == 2
Flows == 1..MaxFlows
\* the Telegram users
Users == {"u1", "u2"}
\* the value of parseInt before it is applied
NotParsed == [isNaN |-> TRUE, value |-> 0]
\* no row of user_votes for the user and the proposal
NoVote == [vote_type |-> NotParsed, vote_timestamp |-> 0, tx_hash |-> NoTx]
\* the support values handed to castVoteBySig: none before a submission
NotSubmitted == <<>>
IdleFlow ==
    [pc |-> "idle", user |-> "none", source |-> "none", voteType |-> <<>>,
     voteTypeDesc |-> "none", existingVote |-> NoVote, support |-> NotParsed,
     submitted |-> NotSubmitted, result |-> "none", told |-> "none",
     replaced |-> FALSE, invocations |-> <<>>]

\* handleVoteAction was not called and user_votes is empty
HistoryIdle ==
    /\ userVotes = [u \in Users |-> NoVote]
    /\ chainVoters = {}
    /\ flow = [f \in Flows |-> IdleFlow]

\* number of message handlers (a /join command or a text message)
MaxTasks == 3
Tasks == 1..MaxTasks
\* no row in the users table, no wallet file, no wallet generated
NoAddress == <<>>
\* { state: STATES.NORMAL, data: {} }: no callback
NormalState == [state |-> "normal", callback |-> 0]
IdleTask ==
    [pc |-> "idle", kind |-> "none", user |-> "none", wallet |-> NoAddress,
     address |-> NoAddress, told |-> "none"]

\* nobody has joined and no message is being handled
JoinIdle ==
    /\ usersTable = [u \in Users |-> NoAddress]
    /\ walletFiles = [u \in Users |-> NoAddress]
    /\ conversationStates = [u \in Users |-> NormalState]
    /\ task = [t \in Tasks |-> IdleTask]
    /\ invoked = [registered |-> 0,
                  callback |-> [r \in Tasks |-> 0],
                  sendWelcomeTokens |-> [u \in Users |-> 0]]

\* number of checkProposalStates runs that can be in progress at once
MaxRuns == 2
Runs == 1..MaxRuns
\* an announcement count stops at this value
MaxAnnounced == 2
\* number of verifyApprovalsAndFinalizeProposal calls
MaxFinalize == 2
Finalizers == 1..MaxFinalize
\* the names getProposalStateDescription gives the states the proposal takes
GovernorStates ==
    {"Pending", "Active", "Defeated", "Succeeded", "Queued", "Expired", "Executed"}
\* no row in proposal_cache: hasProposalStateChanged answers oldState null
NoRow == "null"
IdleRun == [pc |-> "idle", state |-> "none", changed |-> FALSE, oldState |-> NoRow]
IdleWriter == [pc |-> "idle", state |-> "none"]
IdleFinalize ==
    [pc |-> "idle", state |-> "none", submitted |-> FALSE, success |-> FALSE,
     executed |-> FALSE, reason |-> "none"]

\* the proposal was just created, nothing is cached and nothing runs
GovernanceIdle ==
    /\ governorState = "Pending"
    /\ proposalCache = NoRow
    /\ run = [r \in Runs |-> IdleRun]
    /\ announced = [s \in GovernorStates |-> 0]
    /\ cacheWriter = IdleWriter
    /\ finalize = [f \in Finalizers |-> IdleFinalize]

Init ==
    /\ blockchainEnabled \in BOOLEAN
    /\ VoteIdle
    /\ DelegationIdle
    /\ RelayIdle /\ StateMapIdle /\ SanitizerIdle /\ LifecycleIdle /\ HistoryIdle /\ JoinIdle /\ GovernanceIdle

(***************************** the governor ********************************)
HasVoted(a) == \E r \in ledger : r.voter = a

\* Governor._castVote: the vote of account a would revert
WouldRevert(a) == proposalState # 1 \/ HasVoted(a)

\* why it would revert (the state is checked first)
RevertReason(a) == IF proposalState # 1 THEN "inactive" ELSE "duplicate"

\* the messages a revert may carry
RevertMessages(reason) ==
    IF reason = "inactive" THEN {RevertNotActive} ELSE AlreadyCastReverts

\* governor.getVotes(account, blockNumber)
GetVotes(a, blk) == IF blk = SnapshotBlock THEN snapshotVotes[a] ELSE currentVotes[a]

\* the voting period opens
OpenVoting ==
    /\ proposalState = 0
    /\ proposalState' = 1
    /\ UNCHANGED <<blockchainEnabled, snapshotVotes, currentVotes, ledger, call, outsideVote>>

\* the voting period ends: Succeeded (4) if a For vote outweighs, else Defeated (3)
CloseVoting ==
    /\ proposalState = 1
    /\ LET for == {r \in ledger : r.support = 1}
           against == {r \in ledger : r.support = 0}
       IN  proposalState' = IF Cardinality(for) > Cardinality(against) THEN 4 ELSE 3
    /\ UNCHANGED <<blockchainEnabled, snapshotVotes, currentVotes, ledger, call, outsideVote>>

(************************** one castVote call ******************************)
\* the call ends: castVote returns outcome.value or throws
End(c, outcome, at) ==
    call' = [call EXCEPT ![c].pc = "done", ![c].result = outcome.value,
                         ![c].thrown = outcome.thrown, ![c].failedAt = at]

ChainUnchanged ==
    UNCHANGED <<blockchainEnabled, proposalState, snapshotVotes, currentVotes, ledger, outsideVote>>

\* BlockchainManager.castVote up to the first await of voteOnProposal
CastVote(c) ==
    /\ call[c].pc = "idle"
    /\ \E w \in Voters \cup {NoWallet}, p \in {TheProposal, NoProposal}, t \in VoteTypes :
         LET started == [call EXCEPT ![c].userWallet = w, ![c].proposalId = p,
                                     ![c].voteType = t, ![c].votedBefore = HasVoted(w)]
             chk == castVoteChecks(p, w)
         IN  IF chk # NoError
             THEN call' = [started EXCEPT ![c].pc = "done", ![c].failedAt = "castVote",
                                          ![c].result = castVoteCatch(chk).value,
                                          ![c].thrown = castVoteCatch(chk).thrown]
             ELSE IF ~blockchainEnabled
             THEN call' = [started EXCEPT ![c].pc = "done", ![c].result = simulatedVote]
             ELSE call' = [started EXCEPT ![c].pc = "validateProposalState"]
    /\ ChainUnchanged

\* validateProposalState: await governor.state(proposalId)
ValidateProposalState(c) ==
    /\ call[c].pc = "validateProposalState"
    /\ \/ End(c, Returns(handleVoteError(RpcError)), "state")
       \/ LET err == validateProposalStateThrows(proposalState)
              read == [call EXCEPT ![c].stateRead = proposalState]
          IN  IF err # NoError
              THEN call' = [read EXCEPT ![c].pc = "done", ![c].result = handleVoteError(err)]
              ELSE call' = [read EXCEPT ![c].pc = "simulateVote"]
    /\ ChainUnchanged

\* what the dry run governor.callStatic.castVote(.., {from: voter}) may answer
DryRunAnswers(a) ==
    (IF WouldRevert(a) THEN RevertMessages(RevertReason(a)) ELSE {NoError})
        \cup {SimulationUnsupported, RpcError}

\* simulateVote: await governor.callStatic.castVote(proposalId, 1, {from})
SimulateVote(c) ==
    /\ call[c].pc = "simulateVote"
    /\ \E m \in DryRunAnswers(call[c].userWallet) :
         LET err == simulateVoteThrows(m)
         IN  IF err # NoError
             THEN call' = [call EXCEPT ![c].pc = "done", ![c].simulation = "duplicate",
                                       ![c].result = handleVoteError(err)]
             ELSE call' = [call EXCEPT ![c].pc = "checkVotingPower",
                              ![c].simulation = IF m = NoError THEN "passed" ELSE "inconclusive"]
    /\ ChainUnchanged

\* checkVotingPowerAtSnapshot: await proposalSnapshot, await getVotes
CheckVotingPowerAtSnapshot(c) ==
    /\ call[c].pc = "checkVotingPower"
    /\ \/ End(c, Returns(handleVoteError(RpcError)), "votingPower")
       \/ LET blk == PowerCheckBlock(SnapshotBlock)
              power == GetVotes(call[c].userWallet, blk)
              err == checkVotingPowerThrows(power)
              read == [call EXCEPT ![c].powerRead = power, ![c].powerBlock = blk]
          IN  IF err # NoError
              THEN call' = [read EXCEPT ![c].pc = "done", ![c].result = handleVoteError(err)]
              ELSE call' = [read EXCEPT ![c].pc = "sign",
                                        ![c].tiers = Append(@, VoteTiers[1])]
    /\ ChainUnchanged

\* voteWithMetaTransaction up to the signature: the domain reads
\* (getNetwork, governor.name) and userWallet._signTypedData
SignBallot(c) ==
    /\ call[c].pc = "sign"
    /\ \/ \E m \in {RpcError, SigningFailed} :
            End(c, Returns(metaTxTier("threw", NoTx, m)), "sign")
       \/ call' = [call EXCEPT ![c].pc = "estimateGas",
                       ![c].signer = BallotSigner(call[c].userWallet, Admin),
                       ![c].submitter = BallotSubmitter(call[c].userWallet, Admin)]
    /\ ChainUnchanged

\* faulty variant: a failed estimation ends the tier without a submission
EstimateGasAborts(c) ==
    /\ call[c].pc = "estimateGas"
    /\ \/ /\ ~WouldRevert(call[c].signer)
          /\ call' = [call EXCEPT ![c].pc = "send", ![c].gas = "estimated"]
       \/ call' = [call EXCEPT ![c].pc = "done", ![c].gas = "fixed", ![c].failedAt = "send",
                       ![c].result = metaTxTier("threw", NoTx, RpcError)]
    /\ ChainUnchanged

\* await governorWithSigner.estimateGas.castVoteBySig(..)
EstimateGas(c) ==
    /\ call[c].pc = "estimateGas"
    /\ \/ /\ ~WouldRevert(call[c].signer)
          /\ call' = [call EXCEPT ![c].pc = "send", ![c].gas = "estimated"]
       \/ \* the estimation throws (a revert, or the node refuses): catch (gasError)
          call' = [call EXCEPT ![c].pc = "resend", ![c].gas = "fixed"]
    /\ ChainUnchanged

\* await governorWithSigner.castVoteBySig(.., {gasLimit: gasWithBuffer})
SendVote(c) ==
    /\ call[c].pc = "send"
    /\ \/ call' = [call EXCEPT ![c].pc = "wait", ![c].tx = "pending", ![c].sends = @ + 1]
       \/ \* the node rejects the transaction: catch (gasError)
          call' = [call EXCEPT ![c].pc = "resend", ![c].gas = "fixed", ![c].sends = @ + 1]
    /\ ChainUnchanged

\* catch (gasError): await governorWithSigner.castVoteBySig(.., {gasLimit: 1000000})
ResendVote(c) ==
    /\ call[c].pc = "resend"
    /\ \/ call' = [call EXCEPT ![c].pc = "wait", ![c].tx = "pending", ![c].sends = @ + 1]
       \/ call' = [call EXCEPT ![c].pc = "done", ![c].sends = @ + 1,
                            ![c].failedAt = "send",
                            ![c].result = metaTxTier("threw", NoTx, NonceTooLow)]
    /\ ChainUnchanged

\* the chain includes the pending castVoteBySig transaction of call c: the
\* governor recovers the signer and counts the vote, or reverts
MineTx(c) ==
    /\ call[c].tx = "pending"
    /\ IF WouldRevert(call[c].signer)
       THEN /\ call' = [call EXCEPT ![c].tx = RevertReason(call[c].signer)]
            /\ UNCHANGED ledger
       ELSE /\ ledger' = ledger \cup
                 {[voter |-> call[c].signer, support |-> call[c].voteType,
                   sender |-> call[c].submitter, tx |-> TxHash(c)]}
            /\ call' = [call EXCEPT ![c].tx = "ok"]
    /\ UNCHANGED <<blockchainEnabled, proposalState, snapshotVotes, currentVotes, outsideVote>>

\* await tx.wait() settles: the receipt, or the error of a reverted
\* transaction (with or without the revert reason in its text)
WaitSettles(c) ==
    /\ call[c].pc = "wait"
    /\ \/ /\ call[c].tx = "ok"
          /\ call' = [call EXCEPT ![c].pc = "done",
                          ![c].result = metaTxTier("ok", TxHash(c), NoError)]
       \/ /\ call[c].tx \in {"inactive", "duplicate"}
          /\ \E m \in {TransactionFailed} \cup RevertMessages(call[c].tx) :
               call' = [call EXCEPT ![c].pc = "done",
                           ![c].result = metaTxTier(call[c].tx, TxHash(c), m)]
    /\ ChainUnchanged

\* await tx.wait() rejects because the connection to the node fails
WaitFails(c) ==
    /\ call[c].pc = "wait"
    /\ End(c, Returns(metaTxTier("threw", NoTx, RpcError)), "wait")
    /\ ChainUnchanged

Next ==
    \/ OpenVoting
    \/ CloseVoting
    \/ \E c \in Calls : CastVote(c)
    \/ \E c \in Calls : ValidateProposalState(c)
    \/ \E c \in Calls : SimulateVote(c)
    \/ \E c \in Calls : CheckVotingPowerAtSnapshot(c)
    \/ \E c \in Calls : SignBallot(c)
    \/ \E c \in Calls : EstimateGas(c)
    \/ \E c \in Calls : SendVote(c)
    \/ \E c \in Calls : ResendVote(c)
    \/ \E c \in Calls : MineTx(c)
    \/ \E c \in Calls : WaitSettles(c)
    \/ \E c \in Calls : WaitFails(c)

Spec == Init /\ [][Next]_vars

(******************************* properties ********************************)
Done(c) == call[c].pc = "done"
\* castVote was given a wallet and the id of the proposal
ValidCall(c) == call[c].userWallet \in Voters /\ call[c].proposalId = TheProposal
VotesOf(a) == {r \in ledger : r.voter = a}
ValidationFailure(r) == ~r.success /\ r.method = "validation"
\* two calls of castVote for the same (voter, proposal) pair
SamePair(c, d) ==
    /\ c # d /\ ValidCall(c) /\ ValidCall(d)
    /\ call[c].userWallet = call[d].userWallet
    /\ call[c].proposalId = call[d].proposalId

DirectTier == "direct-user-vote"
AdminTier == "admin-assisted"
Attempted(c, tier) == \E i \in 1..Len(call[c].tiers) : call[c].tiers[i] = tier
TierIndex(c, tier) == CHOOSE i \in 1..Len(call[c].tiers) : call[c].tiers[i] = tier
\* the meta-transaction tier was attempted and threw
Tier1Threw(c) ==
    /\ Done(c) /\ Attempted(c, VoteTiers[1])
    /\ ~(call[c].result.success /\ call[c].result.method = "meta-transaction")

\* C2, as claimed: when Tier 1 throws, castVote attempts Tier 2 (direct user
\* transaction), attempts it before Tier 3 (admin-assisted), and does not
\* attempt Tier 3 when Tier 2 succeeded.
C2_Tier2BeforeTier3 ==
    \A c \in Calls :
        Tier1Threw(c) =>
            /\ Attempted(c, DirectTier)
            /\ Attempted(c, AdminTier) =>
                   /\ TierIndex(c, DirectTier) < TierIndex(c, AdminTier)
                   /\ call[c].result.method # DirectTier

\* C3, as claimed: all-methods-failed is returned only after the
\* meta-transaction, the direct-user and the admin-assisted tier were each
\* attempted; the failure of the meta-transaction tier alone is not the result.
C3_AllFailedAfterAllTiers ==
    \A c \in Calls :
        (Done(c) /\ call[c].result.method = "all-methods-failed") =>
            /\ Attempted(c, VoteTiers[1])
            /\ Attempted(c, DirectTier)
            /\ Attempted(c, AdminTier)

\* C4: the power check reads the voter's power at the proposal's snapshot
\* block, never the current power: a voter with no power at the snapshot is
\* rejected by the check as a validation failure with the no-voting-power
\* text, and no ballot of theirs is signed, submitted or recorded, whatever
\* their current power.
C4_PowerAtSnapshot ==
    \A c \in Calls :
        /\ call[c].powerBlock # "none" =>
              /\ call[c].powerBlock = SnapshotBlock
              /\ call[c].powerRead = snapshotVotes[call[c].userWallet]
        /\ call[c].powerRead = 0 =>
              /\ Done(c)
              /\ call[c].result = Result(FALSE, "validation", MsgNoVotingPower, NoTx)
        /\ (ValidCall(c) /\ snapshotVotes[call[c].userWallet] = 0) =>
              /\ call[c].signer = "none" /\ call[c].sends = 0 /\ call[c].tx = "none"
              /\ VotesOf(call[c].userWallet) = {}

\* a voter with current power but none at the snapshot was rejected by the check
C4_Witness ==
    \E c \in Calls :
        /\ Done(c) /\ call[c].powerRead = 0
        /\ currentVotes[call[c].userWallet] > 0
        /\ call[c].result.error = MsgNoVotingPower

\* C5: happy path.  The validator read the proposal as Active, the voter had
\* power at the snapshot and had not voted, the relay's castVoteBySig
\* transaction was included successfully and its confirmation reached the
\* relay: castVote returns success:true, method meta-transaction and the hash
\* of that transaction, and the chain holds exactly one vote of the voter,
\* the one of that transaction with the support asked for.
C5_HappyPath ==
    \A c \in Calls :
        ( /\ Done(c) /\ call[c].stateRead = ActiveState /\ call[c].powerRead > 0
          /\ ~call[c].votedBefore /\ call[c].tx = "ok" /\ call[c].failedAt = "none" ) =>
            /\ call[c].result = Result(TRUE, "meta-transaction", NoError, TxHash(c))
            /\ VotesOf(call[c].userWallet) =
                   {[voter |-> call[c].userWallet, support |-> call[c].voteType,
                     sender |-> Admin, tx |-> TxHash(c)]}

\* castVote(proposal, voter, 1) went through and returned success
C5_Witness ==
    \E c \in Calls :
        /\ Done(c) /\ call[c].voteType = 1 /\ call[c].tx = "ok"
        /\ call[c].failedAt = "none" /\ call[c].result.success

\* C6, as claimed: once a vote of voter V is recorded, a later castVote of V
\* whose duplicate is caught by the dry run, or by the chain reverting the
\* real submission, returns the validation failure "You have already voted
\* on this proposal".
C6_DoubleVoteIsValidationFailure ==
    \A c \in Calls :
        ( /\ Done(c) /\ ValidCall(c) /\ call[c].votedBefore /\ call[c].failedAt = "none"
          /\ (call[c].simulation = "duplicate" \/ call[c].tx = "duplicate") ) =>
            call[c].result = Result(FALSE, "validation", MsgAlreadyVoted, NoTx)

\* C7: a proposal whose state the validator reads as anything but Active:
\* castVote returns a validation failure, and in that call no ballot is
\* signed and no transaction is submitted.
C7_InactiveNeverSigned ==
    \A c \in Calls :
        (call[c].stateRead # -1 /\ call[c].stateRead # ActiveState) =>
            /\ Done(c)
            /\ ValidationFailure(call[c].result)
            /\ call[c].tiers = <<>>
            /\ call[c].signer = "none" /\ call[c].sends = 0 /\ call[c].tx = "none"

\* castVote on a Defeated proposal was rejected
C7_Witness ==
    \E c \in Calls :
        Done(c) /\ call[c].stateRead = 3 /\ ValidationFailure(call[c].result)

\* C8: castVote never throws: however the chain calls end, it returns a
\* result object with a success flag.
C8_NeverThrows ==
    \A c \in Calls :
        /\ ~call[c].thrown
        /\ Done(c) => (call[c].result # NoResult /\ call[c].result.success \in BOOLEAN)

\* calls ended by a failed read, a failed signature, a rejected submission,
\* a reverted transaction, a failed wait and a rejected argument
C8_Witness ==
    /\ \E c \in Calls :
          Done(c) /\ call[c].failedAt \in {"state", "votingPower", "sign", "send", "wait"}
    /\ \E c \in Calls :
          Done(c) /\ (call[c].failedAt = "castVote" \/ call[c].tx \in {"duplicate", "inactive"})

\* the values of VoteAttemptResult.method
MethodEnum ==
    {"meta-transaction", "direct-user-vote", "admin-assisted", "admin-direct-vote",
     "validation", "all-methods-failed"}

\* C9, as claimed: every result castVote returns has a method, one of
\* meta-transaction, direct-user-vote, admin-assisted, admin-direct-vote,
\* validation, all-methods-failed.
C9_MethodInEnum ==
    \A c \in Calls : Done(c) => call[c].result.method \in MethodEnum

\* C10: in the meta-transaction tier the ballot is signed by the voter's key
\* and never by the relay wallet's, the relay wallet submits it, and a vote
\* the chain records is attributed to the voter of the call that sent it.
C10_VoterSignsRelaySubmits ==
    /\ \A c \in Calls :
          call[c].signer # "none" =>
              /\ call[c].signer = call[c].userWallet
              /\ call[c].signer # Admin
              /\ call[c].submitter = Admin
    /\ \A r \in ledger :
          \E c \in Calls :
              /\ r.tx = TxHash(c)
              /\ r.voter = call[c].userWallet
              /\ r.support = call[c].voteType
              /\ r.sender = Admin

\* a vote was recorded through the relay
C10_Witness ==
    \E c \in Calls, r \in ledger :
        r.tx = TxHash(c) /\ r.voter = call[c].userWallet /\ r.sender = Admin

(***************************************************************************)
(* Delegation and the welcome grant.                                       *)
(*                                                                         *)
(* BlockchainService.delegateVotes, delegateVotesBySig, transferTokens,    *)
(* sendWelcomeTokensWithDelegation, handleNewUserDelegation and            *)
(* BlockchainManager.sendWelcomeTokens against the ERC20Votes token.       *)
(***************************************************************************)
\* ERC20Votes.delegateBySig: the signature recovers to signer and carries
\* nonce; the call reverts unless nonce is the signer's current nonce
DelegateBySigReverts(signer, nonce) == nonce # tokenNonces[signer]

DelegationInit ==
    /\ adminDelegateFor \in {"absent", "notOwner", "works"}
    /\ delegates = [a \in Addresses |-> ZeroAddress]
    /\ tokenNonces = [a \in Addresses |-> 0]
    /\ balances = [a \in Addresses |->
                      IF a = Admin THEN AdminSupply
                      ELSE IF a \in LateHolders THEN 0 ELSE WelcomeTokens]
    /\ dcall = [d \in DCalls |-> IdleDCall]

InitDelegation ==
    /\ blockchainEnabled \in BOOLEAN
    /\ VoteIdle
    /\ DelegationInit
    /\ RelayIdle /\ StateMapIdle /\ SanitizerIdle /\ LifecycleIdle /\ HistoryIdle /\ JoinIdle /\ GovernanceIdle

TokenUnchanged ==
    UNCHANGED <<blockchainEnabled, adminDelegateFor, delegates, tokenNonces, balances,
                outsideDelegation>>

\* BlockchainManager.sendWelcomeTokens after sendWelcomeTokensWithDelegation
\* returned txResult: done when the delegation succeeded, else the fallback
ManagerAfterWelcome(rec, txResult) ==
    IF txResult.delegation = "success"
    THEN [rec EXCEPT !.pc = "done", !.welcome = txResult,
                     !.manager = managerWelcomeResult(txResult, TRUE)]
    ELSE [rec EXCEPT !.pc = "handleNewUserDelegation", !.welcome = txResult]

\* the call of delegateVotes made by rec is over with outcome o: control
\* returns to its caller
AfterDelegateVotes(rec, o) ==
    LET r == [rec EXCEPT !.result = o.value, !.after = delegates[rec.delegator]]
    IN  CASE rec.ret = "caller" ->
               [r EXCEPT !.pc = "done", !.thrown = o.thrown]
          [] rec.ret = "welcomeLoop" ->
               IF o.thrown
               THEN ManagerAfterWelcome(r, welcomeResult(rec.transferTx, FALSE))
               ELSE [r EXCEPT !.pc = "isTokenDelegated"]
          [] rec.ret = "autoDelegate" ->
               [r EXCEPT !.pc = "done",
                         !.manager = managerWelcomeResult(rec.welcome,
                                         ~o.thrown /\ o.value.status = "success")]

\* a call of delegateVotes(rec.delegator, rec.delegatee) begins
EnterDelegateVotes(rec, ret) ==
    LET r == [rec EXCEPT !.ret = ret, !.nonceRead = -1, !.signer = "none",
                         !.submitter = "none", !.before = delegates[rec.delegator]]
    IN  IF ~blockchainEnabled THEN AfterDelegateVotes(r, Returns(delegationDisabled))
        ELSE [r EXCEPT !.pc = "balanceOf"]

\* a caller invokes delegateVotes(delegator, delegatee)
DelegateVotes(d) ==
    /\ dcall[d].pc = "idle"
    /\ \E a \in Voters, b \in Voters :
         LET prior == \E e \in DCalls :
                         /\ e # d /\ dcall[e].pc = "done" /\ dcall[e].kind = "delegate"
                         /\ dcall[e].delegator = a /\ dcall[e].delegatee = b
                         /\ dcall[e].result.status = "success"
             rec == [dcall[d] EXCEPT !.kind = "delegate", !.delegator = a,
                                     !.delegatee = b, !.priorOk = prior]
         IN  dcall' = [dcall EXCEPT ![d] = EnterDelegateVotes(rec, "caller")]
    /\ TokenUnchanged

\* faulty variant: the admin-direct method is skipped
BalanceOfSkipsAdmin(d) ==
    /\ dcall[d].pc = "balanceOf"
    /\ LET rec == dcall[d]
       IN  dcall' = [dcall EXCEPT ![d] =
               IF balances[rec.delegator] = 0
               THEN AfterDelegateVotes(rec, Returns(noTokensToDelegate))
               ELSE [rec EXCEPT !.pc = "delegateVotesBySig"]]
    /\ TokenUnchanged

\* delegateVotes: await tokenContract.balanceOf(delegator), then the test for
\* the adminDelegateFor method
BalanceOf(d) ==
    /\ dcall[d].pc = "balanceOf"
    /\ LET rec == dcall[d]
       IN  \/ dcall' = [dcall EXCEPT ![d] =
                  AfterDelegateVotes([rec EXCEPT !.rpcFailed = TRUE],
                                     delegateVotesCatch(RpcError))]
           \/ dcall' = [dcall EXCEPT ![d] =
                  IF balances[rec.delegator] = 0
                  THEN AfterDelegateVotes(rec, Returns(noTokensToDelegate))
                  ELSE IF adminDelegateFor = "absent"
                  THEN [rec EXCEPT !.pc = "delegateVotesBySig"]
                  ELSE [rec EXCEPT !.pc = "adminDelegateFor"]]
    /\ TokenUnchanged

\* delegateVotes: estimateGas.adminDelegateFor, adminDelegateFor and tx.wait;
\* the token's _delegate(delegator, delegatee) takes effect
AdminDelegateFor(d) ==
    /\ dcall[d].pc = "adminDelegateFor"
    /\ LET rec == dcall[d]
       IN  \/ /\ dcall' = [dcall EXCEPT ![d] =
                     [rec EXCEPT !.pc = "delegateVotesBySig", !.rpcFailed = TRUE]]
              /\ UNCHANGED delegates
           \/ /\ adminDelegateFor = "notOwner"
              /\ dcall' = [dcall EXCEPT ![d] = [rec EXCEPT !.pc = "delegateVotesBySig"]]
              /\ UNCHANGED delegates
           \/ /\ adminDelegateFor = "works"
              /\ delegates' = [delegates EXCEPT ![rec.delegator] = rec.delegatee]
              /\ dcall' = [dcall EXCEPT ![d] =
                     [AfterDelegateVotes([rec EXCEPT !.txs = @ + 1, !.effectOn = rec.delegator],
                                         Returns(adminDelegationSucceeded(DTxHash(d, rec.txs + 1))))
                      EXCEPT !.after = rec.delegatee]]
    /\ UNCHANGED <<blockchainEnabled, adminDelegateFor, tokenNonces, balances, outsideDelegation>>

\* delegateVotesBySig up to the signature: tokenContract.nonces(delegator),
\* getNetwork, name and signingWallet._signTypedData
SignDelegation(d) ==
    /\ dcall[d].pc = "delegateVotesBySig"
    /\ LET rec == dcall[d]
       IN  \/ dcall' = [dcall EXCEPT ![d] =
                  AfterDelegateVotes([rec EXCEPT !.rpcFailed = TRUE],
                                     Returns(delegateVotesBySigCatch(RpcError)))]
           \/ dcall' = [dcall EXCEPT ![d] =
                  [rec EXCEPT !.pc = "delegateBySig",
                              !.nonceRead = tokenNonces[rec.delegator],
                              !.signer = DelegationSigner(rec.delegator, Admin),
                              !.submitter = DelegationSubmitter(rec.delegator, Admin)]]
    /\ TokenUnchanged

\* delegateVotesBySig: estimateGas.delegateBySig, delegateBySig (with the
\* estimate or the fixed gas limit) and tx.wait.  The token recovers the
\* signer from the signature and delegates the signer's votes
DelegateBySig(d) ==
    /\ dcall[d].pc = "delegateBySig"
    /\ LET rec == dcall[d]
           sent == [rec EXCEPT !.txs = @ + 1]
       IN  \/ /\ dcall' = [dcall EXCEPT ![d] =
                     AfterDelegateVotes([rec EXCEPT !.rpcFailed = TRUE],
                                        Returns(delegateVotesBySigCatch(RpcError)))]
              /\ UNCHANGED <<delegates, tokenNonces>>
           \/ /\ DelegateBySigReverts(rec.signer, rec.nonceRead)
              /\ \E m \in {TransactionFailed, RevertInvalidNonce} :
                   dcall' = [dcall EXCEPT ![d] =
                       AfterDelegateVotes(sent, Returns(delegateVotesBySigCatch(m)))]
              /\ UNCHANGED <<delegates, tokenNonces>>
           \/ /\ ~DelegateBySigReverts(rec.signer, rec.nonceRead)
              /\ delegates' = [delegates EXCEPT ![rec.signer] = rec.delegatee]
              /\ tokenNonces' = [tokenNonces EXCEPT ![rec.signer] = @ + 1]
              /\ dcall' = [dcall EXCEPT ![d] =
                     [AfterDelegateVotes([sent EXCEPT !.effectOn = rec.signer],
                                         Returns(delegateBySigSucceeded(DTxHash(d, sent.txs))))
                      EXCEPT !.after = IF rec.signer = rec.delegator THEN rec.delegatee
                                       ELSE delegates[rec.delegator]]]
    /\ UNCHANGED <<blockchainEnabled, adminDelegateFor, balances, outsideDelegation>>

\* BlockchainManager.sendWelcomeTokens(userAddress) up to the first await of
\* sendWelcomeTokensWithDelegation
SendWelcomeTokens(d) ==
    /\ dcall[d].pc = "idle"
    /\ \E a \in Voters :
         LET rec == [dcall[d] EXCEPT !.kind = "welcome", !.delegator = a, !.delegatee = a]
         IN  dcall' = [dcall EXCEPT ![d] =
                 IF ~blockchainEnabled THEN ManagerAfterWelcome(rec, welcomeError)
                 ELSE [rec EXCEPT !.pc = "transferTokens"]]
    /\ TokenUnchanged

\* transferTokens: the balance check, estimateGas.transfer, transfer, tx.wait
TransferTokens(d) ==
    /\ dcall[d].pc = "transferTokens"
    /\ LET rec == dcall[d]
       IN  \/ /\ dcall' = [dcall EXCEPT ![d] =
                     ManagerAfterWelcome([rec EXCEPT !.rpcFailed = TRUE], welcomeError)]
              /\ UNCHANGED balances
           \/ /\ balances[Admin] < WelcomeTokens
              /\ dcall' = [dcall EXCEPT ![d] = ManagerAfterWelcome(rec, welcomeError)]
              /\ UNCHANGED balances
           \/ /\ balances[Admin] >= WelcomeTokens
              /\ balances' = [balances EXCEPT ![Admin] = @ - WelcomeTokens,
                                              ![rec.delegator] = @ + WelcomeTokens]
              /\ dcall' = [dcall EXCEPT ![d] =
                     [rec EXCEPT !.pc = "getTokenBalance", !.transferTx = TransferTxHash(d)]]
    /\ UNCHANGED <<blockchainEnabled, adminDelegateFor, delegates, tokenNonces, outsideDelegation>>

\* sendWelcomeTokensWithDelegation: await getTokenBalance(toAddress), the
\* comparison with '0', and the first pass of the delegation loop
GetTokenBalance(d) ==
    /\ dcall[d].pc = "getTokenBalance"
    /\ LET rec == dcall[d]
       IN  \/ dcall' = [dcall EXCEPT ![d] =
                  ManagerAfterWelcome([rec EXCEPT !.rpcFailed = TRUE], welcomeError)]
           \/ dcall' = [dcall EXCEPT ![d] =
                  IF FormatUnits(balances[rec.delegator]) = ZeroString
                  THEN ManagerAfterWelcome(rec, welcomeError)
                  ELSE EnterDelegateVotes(
                           [rec EXCEPT !.attempt = 0,
                                       !.balanceAfter = FormatUnits(balances[rec.delegator])],
                           "welcomeLoop")]
    /\ TokenUnchanged

\* faulty variant: the loop goes on after the holder was found delegated
IsTokenDelegatedKeepsTrying(d) ==
    /\ dcall[d].pc = "isTokenDelegated"
    /\ LET rec == dcall[d]
       IN  \E isDelegated \in {FALSE, delegates[rec.delegator] # ZeroAddress} :
             dcall' = [dcall EXCEPT ![d] =
                 IF rec.attempt < LastDelegationAttempt
                 THEN EnterDelegateVotes([rec EXCEPT !.attempt = @ + 1,
                                                     !.loopDelegated = @ \/ isDelegated],
                                         "welcomeLoop")
                 ELSE ManagerAfterWelcome([rec EXCEPT !.loopDelegated = @ \/ isDelegated],
                          welcomeResult(rec.transferTx, rec.loopDelegated \/ isDelegated))]
    /\ TokenUnchanged

\* the delegation loop after delegateVotes returned: await isTokenDelegated,
\* which answers false when its read fails
IsTokenDelegated(d) ==
    /\ dcall[d].pc = "isTokenDelegated"
    /\ LET rec == dcall[d]
       IN  \E isDelegated \in {FALSE, delegates[rec.delegator] # ZeroAddress} :
             dcall' = [dcall EXCEPT ![d] =
                 IF isDelegated
                 THEN ManagerAfterWelcome([rec EXCEPT !.loopDelegated = TRUE],
                                          welcomeResult(rec.transferTx, TRUE))
                 ELSE IF rec.attempt < LastDelegationAttempt
                 THEN EnterDelegateVotes([rec EXCEPT !.attempt = @ + 1], "welcomeLoop")
                 ELSE ManagerAfterWelcome(rec, welcomeResult(rec.transferTx, FALSE))]
    /\ TokenUnchanged

\* BlockchainManager.sendWelcomeTokens, the fallback: handleNewUserDelegation
\* reads isTokenDelegated, then calls autoDelegate
HandleNewUserDelegation(d) ==
    /\ dcall[d].pc = "handleNewUserDelegation"
    /\ LET rec == dcall[d]
       IN  \E isDelegated \in {FALSE, blockchainEnabled /\ delegates[rec.delegator] # ZeroAddress} :
             dcall' = [dcall EXCEPT ![d] =
                 IF isDelegated
                 THEN [rec EXCEPT !.pc = "done",
                                  !.manager = managerWelcomeResult(rec.welcome, TRUE)]
                 ELSE EnterDelegateVotes(rec, "autoDelegate")]
    /\ TokenUnchanged

NextDelegation ==
    \/ \E d \in DCalls : DelegateVotes(d)
    \/ \E d \in DCalls : BalanceOf(d)
    \/ \E d \in DCalls : AdminDelegateFor(d)
    \/ \E d \in DCalls : SignDelegation(d)
    \/ \E d \in DCalls : DelegateBySig(d)
    \/ \E d \in DCalls : SendWelcomeTokens(d)
    \/ \E d \in DCalls : TransferTokens(d)
    \/ \E d \in DCalls : GetTokenBalance(d)
    \/ \E d \in DCalls : IsTokenDelegated(d)
    \/ \E d \in DCalls : HandleNewUserDelegation(d)

SpecDelegation == InitDelegation /\ [][NextDelegation]_vars

(*********************** properties of the delegation ***********************)
DDone(d) == dcall[d].pc = "done"

\* C11, as claimed: in meta-transaction delegation the {delegatee, nonce,
\* expiry} payload is signed by the token holder's own key, the relay wallet
\* only submits it, and the delegation that takes effect on chain is the
\* holder's, not the relay wallet's.
C11_HolderSignsDelegation ==
    \A d \in DCalls :
        /\ dcall[d].signer # "none" =>
              /\ dcall[d].signer = dcall[d].delegator
              /\ dcall[d].submitter = Admin
        /\ dcall[d].effectOn \in {"none", dcall[d].delegator}

\* C13: a delegation failure never blocks the grant.  When the transfer
\* succeeded, the balance read after it returned and no pass of the
\* delegation loop found the holder delegated, sendWelcomeTokensWithDelegation
\* returns status success with the transfer's hash and a failed delegation;
\* when the fallback delegation fails as well, sendWelcomeTokens returns
\* success:true, the transfer's hash and delegationSuccess:false.
C13_DelegationFailureKeepsGrant ==
    \A d \in DCalls :
        ( /\ dcall[d].kind = "welcome" /\ dcall[d].transferTx # NoTx
          /\ dcall[d].balanceAfter # NoError /\ ~dcall[d].loopDelegated
          /\ dcall[d].welcome # NoWelcomeResult ) =>
            /\ dcall[d].welcome =
                   [status |-> "success", txHash |-> dcall[d].transferTx,
                    delegation |-> "failed"]
            /\ ( /\ DDone(d) /\ dcall[d].ret = "autoDelegate"
                 /\ dcall[d].result.status # "success" ) =>
                   dcall[d].manager =
                       [success |-> TRUE, txHash |-> dcall[d].transferTx,
                        delegationSuccess |-> FALSE]

\* a grant whose three delegation passes and whose fallback all failed
C13_Witness ==
    \E d \in DCalls :
        /\ DDone(d) /\ dcall[d].kind = "welcome" /\ dcall[d].transferTx # NoTx
        /\ dcall[d].attempt = LastDelegationAttempt /\ ~dcall[d].loopDelegated
        /\ dcall[d].ret = "autoDelegate" /\ dcall[d].result.status = "error"
        /\ dcall[d].manager.success /\ ~dcall[d].manager.delegationSuccess
        /\ balances[dcall[d].delegator] > 0

\* C14: delegateVotes never throws; with the blockchain features enabled
\* every failure, of the balance read, the admin-direct method or the
\* meta-transaction method, is returned as a result with status error,
\* delegationError true and a message.
C14_DelegateVotesNeverThrows ==
    \A d \in DCalls :
        /\ ~dcall[d].thrown
        /\ (DDone(d) /\ dcall[d].kind = "delegate") =>
               dcall[d].result.status \in {"success", "error"}
        /\ (blockchainEnabled /\ dcall[d].result.status = "error") =>
               /\ dcall[d].result.delegationError
               /\ dcall[d].result.message # NoError

\* delegateVotes failed in the balance read; and it failed in the
\* meta-transaction method after the admin-direct method failed
C14_Witness ==
    /\ \E d \in DCalls :
          /\ DDone(d) /\ dcall[d].kind = "delegate" /\ dcall[d].rpcFailed
          /\ dcall[d].result.status = "error" /\ dcall[d].result.method = NoMethod
    /\ \E d \in DCalls :
          /\ DDone(d) /\ dcall[d].kind = "delegate" /\ adminDelegateFor = "notOwner"
          /\ dcall[d].result.method = "meta-transaction-failed"

\* C15, as claimed: delegate(A, A) called again after a first call
\* succeeded (and with every chain call answered) reports success again, and
\* the delegatee of A after the second call is the one after the first.
C15_SelfDelegationIdempotent ==
    \A d \in DCalls :
        ( /\ DDone(d) /\ dcall[d].kind = "delegate"
          /\ dcall[d].delegator = dcall[d].delegatee
          /\ dcall[d].priorOk /\ ~dcall[d].rpcFailed ) =>
            /\ dcall[d].result.status = "success"
            /\ dcall[d].after = dcall[d].before

(***************************************************************************)
(* The transactions of the relay wallet.                                   *)
(*                                                                         *)
(* transferTokens, delegateVotes, delegateVotesBySig, createProposal and   *)
(* voteWithMetaTransaction all send from this.adminWallet and pass no      *)
(* nonce: the wallet asks the node for its transaction count, signs, and   *)
(* sends the signed transaction, in two round trips.                       *)
(***************************************************************************)
\* the contract methods the relay wallet submits
RelayKinds == {"transfer", "adminDelegateFor", "delegateBySig", "propose", "castVoteBySig"}

InitRelay ==
    /\ blockchainEnabled = TRUE
    /\ VoteIdle /\ DelegationIdle
    /\ RelayIdle /\ StateMapIdle /\ SanitizerIdle /\ LifecycleIdle /\ HistoryIdle /\ JoinIdle /\ GovernanceIdle

\* a request reaches its submission (tokenContract.transfer(..), ..): the
\* wallet reads the transaction count and signs with it as the nonce
PopulateTransaction(r) ==
    /\ relayTx[r].pc = "idle"
    /\ \E k \in RelayKinds :
         relayTx' = [relayTx EXCEPT ![r] = [pc |-> "signed", kind |-> k, nonce |-> relayNonce]]
    /\ UNCHANGED <<relayNonce, outsideRelay>>

\* the signed transaction reaches the node, which takes it when its nonce is
\* the next one of the wallet and refuses it otherwise
SendTransaction(r) ==
    /\ relayTx[r].pc = "signed"
    /\ IF relayTx[r].nonce = relayNonce
       THEN /\ relayNonce' = relayNonce + 1
            /\ relayTx' = [relayTx EXCEPT ![r].pc = "accepted"]
       ELSE /\ relayTx' = [relayTx EXCEPT ![r].pc = "refused"]
            /\ UNCHANGED relayNonce
    /\ UNCHANGED outsideRelay

NextRelay ==
    \/ \E r \in Requests : PopulateTransaction(r)
    \/ \E r \in Requests : SendTransaction(r)

SpecRelay == InitRelay /\ [][NextRelay]_vars

\* C12, as claimed: the transactions of the relay wallet are given their
\* nonces one after the other: under any interleaving of concurrent
\* requests no two submissions are assigned the same nonce.
C12_NoncesSerialized ==
    \A r, q \in Requests :
        (r # q /\ relayTx[r].pc # "idle" /\ relayTx[q].pc # "idle") =>
            relayTx[r].nonce # relayTx[q].nonce

(************************ castVote under fair scheduling ********************)
\* the steps of call c that happen whenever they can: the runtime resumes a
\* call whose awaited promise settled and the node answers the requests it
\* gets.  Nothing makes the chain include a transaction (MineTx) or the
\* connection fail (WaitFails).
CallStep(c) ==
    \/ CastVote(c)
    \/ ValidateProposalState(c)
    \/ SimulateVote(c)
    \/ CheckVotingPowerAtSnapshot(c)
    \/ SignBallot(c)
    \/ EstimateGas(c)
    \/ SendVote(c)
    \/ ResendVote(c)
    \/ WaitSettles(c)

SpecFair == Init /\ [][Next]_vars /\ \A c \in Calls : WF_vars(CallStep(c))

\* C16, as claimed: the wait for the confirmation is bounded: a castVote call
\* whose vote transaction was broadcast returns a result in the end, also
\* when the transaction is never confirmed.
C16_WaitIsBounded == \A c \in Calls : (call[c].tx = "pending") ~> Done(c)

\* C20, as claimed: within one castVote call the relay wallet makes a single
\* submission of castVoteBySig, also when the first submission is rejected.
C20_SingleSubmission == \A c \in Calls : call[c].sends <= 1

(***************************************************************************)
(* The mapping of state ordinals to state names:                           *)
(* BlockchainService.getProposalStateDescription and the states array of   *)
(* BlockchainService.validateProposalState.                                *)
(***************************************************************************)
\* the ordinals tried are -MaxOrdinal .. MaxOrdinal
MaxOrdinal == 25

\* getProposalStateDescription: states[stateNum] || 'Unknown'
getProposalStateDescription(n) ==
    IF StateName(n) = "undefined" THEN "Unknown" ELSE StateName(n)

\* the name validateProposalState puts into the error it throws: the text
\* after "Current state:"
validateProposalStateName(n) == AfterLastColon(validateProposalStateThrows(n))[1]

InitStateMap ==
    /\ blockchainEnabled = TRUE
    /\ VoteIdle /\ DelegationIdle /\ RelayIdle /\ SanitizerIdle /\ LifecycleIdle /\ HistoryIdle /\ JoinIdle /\ GovernanceIdle
    /\ stateNum \in (-MaxOrdinal)..MaxOrdinal
    /\ described = NotDescribed

\* the lifecycle read maps the ordinal
DescribeState ==
    /\ described.lifecycle = "none"
    /\ described' = [described EXCEPT !.lifecycle = getProposalStateDescription(stateNum)]
    /\ UNCHANGED <<stateNum, outsideStateMap>>

\* the validator maps the ordinal of a proposal that is not Active
ValidatorNamesState ==
    /\ described.validator = "none"
    /\ validateProposalStateThrows(stateNum) # NoError
    /\ described' = [described EXCEPT !.validator = validateProposalStateName(stateNum)]
    /\ UNCHANGED <<stateNum, outsideStateMap>>

NextStateMap == DescribeState \/ ValidatorNamesState

SpecStateMap == InitStateMap /\ [][NextStateMap]_vars

\* the eight lifecycle states by ordinal, and the unknown state
LifecycleState(n) ==
    CASE n = 0 -> "Pending" [] n = 1 -> "Active" [] n = 2 -> "Canceled"
      [] n = 3 -> "Defeated" [] n = 4 -> "Succeeded" [] n = 5 -> "Queued"
      [] n = 6 -> "Expired" [] n = 7 -> "Executed" [] OTHER -> "Unknown"

\* C17, as claimed: the ordinals 0..7 map to Pending, Active, Canceled,
\* Defeated, Succeeded, Queued, Expired, Executed and every other ordinal
\* maps to the unknown state, in the lifecycle read and in the validator's
\* state check alike.
C17_StateMapping ==
    /\ described.lifecycle # "none" => described.lifecycle = LifecycleState(stateNum)
    /\ described.validator # "none" => described.validator = LifecycleState(stateNum)

(***************************************************************************)
(* CommandHandler.sanitizeErrorForTelegram.  Strings are sequences of      *)
(* characters; each replace() is computed as the regular expression        *)
(* matches: leftmost first, greedy, without overlap.                       *)
(***************************************************************************)
\* number of fragments a raw error string is put together from
MaxFragments == 4

\* the pieces of the raw error strings: an embedded JSON object, a URL, and
\* the characters the regular expressions look for
JsonObject == <<"{", "x", "}">>
Url == <<"h", "t", "t", "p", "s", ":", "/", "/", "x">>
Fragments ==
    {JsonObject, Url, <<"h", "t", "t", "p">>, <<"s">>, <<":", "/", "/">>, <<"{">>, <<"}">>,
     <<"[">>, <<"]">>, <<" ">>, <<"x">>, <<".">>}

\* the default of maxLength
DefaultMaxLength == 100
\* the values of maxLength tried
MaxLengths == {0, 2, 8, DefaultMaxLength}

RECURSIVE Concat(_)
Concat(fs) == IF fs = <<>> THEN <<>> ELSE Head(fs) \o Concat(Tail(fs))

RawErrors == {Concat(fs) : fs \in UNION {[1..n -> Fragments] : n \in 0..MaxFragments}}

UnknownError == <<"U", "n", "k", "n", "o", "w", "n", " ", "e", "r", "r", "o", "r">>
Ellipsis == <<".", ".", ".">>
JsonPlaceholder == <<"{">> \o Ellipsis \o <<"}">>
ArrayPlaceholder == <<"[">> \o Ellipsis \o <<"]">>
UrlPlaceholder == <<"U", "R", "L">>
\* the characters of the class of Markdown characters (the backquote is
\* written as the word, no input has one)
MarkdownChars ==
    {"_", "*", "[", "]", "(", ")", "~", "backquote", ">", "#", "+", "=", "-", "|", "{",
     "}", ".", "!"}
\* the characters \s matches
Whitespace == {" "}

\* the length of the run of characters of set cs that begins at index i
RECURSIVE RunLength(_, _, _)
RunLength(str, i, cs) ==
    IF i > Len(str) \/ str[i] \notin cs THEN 0 ELSE 1 + RunLength(str, i + 1, cs)

\* str begins with the characters of pre
StartsWith(str, pre) == Len(str) >= Len(pre) /\ SubSeq(str, 1, Len(pre)) = pre

Drop(str, n) == SubSeq(str, n + 1, Len(str))

\* errorString.replace(/\{[^}]+\}/g, "{...}")
RECURSIVE replaceJson(_)
replaceJson(str) ==
    IF str = <<>> THEN <<>>
    ELSE LET inner == RunLength(str, 2, {str[i] : i \in 1..Len(str)} \ {"}"})
         IN  IF str[1] = "{" /\ inner >= 1 /\ inner + 2 <= Len(str)
             THEN JsonPlaceholder \o replaceJson(Drop(str, inner + 2))
             ELSE <<str[1]>> \o replaceJson(Tail(str))

\* errorString.replace(/\[[^\]]]+\]/g, "[...]"): an opening bracket, one
\* character that is not a closing bracket, then two or more closing brackets
RECURSIVE replaceArrays(_)
replaceArrays(str) ==
    IF str = <<>> THEN <<>>
    ELSE LET closing == RunLength(str, 3, {"]"})
         IN  IF str[1] = "[" /\ Len(str) >= 2 /\ str[2] # "]" /\ closing >= 2
             THEN ArrayPlaceholder \o replaceArrays(Drop(str, closing + 2))
             ELSE <<str[1]>> \o replaceArrays(Tail(str))

\* the length of the match of /https?:\/\/[^\s]+/ at the start of str, or 0
UrlMatch(str) ==
    LET scheme == IF StartsWith(str, <<"h", "t", "t", "p", "s", ":", "/", "/">>) THEN 8
                  ELSE IF StartsWith(str, <<"h", "t", "t", "p", ":", "/", "/">>) THEN 7
                  ELSE 0
        rest == RunLength(str, scheme + 1, {str[i] : i \in 1..Len(str)} \ Whitespace)
    IN  IF scheme > 0 /\ rest >= 1 THEN scheme + rest ELSE 0

\* faulty variant: the URLs are left in
replaceUrlsKeepsThem(str) == str

\* errorString.replace(/(https?:\/\/[^\s]+)/g, "URL")
RECURSIVE replaceUrls(_)
replaceUrls(str) ==
    IF str = <<>> THEN <<>>
    ELSE IF UrlMatch(str) > 0 THEN UrlPlaceholder \o replaceUrls(Drop(str, UrlMatch(str)))
    ELSE <<str[1]>> \o replaceUrls(Tail(str))

\* if (errorString.length > maxLength) substring(0, maxLength - 3) + '...'
truncate(str, n) ==
    IF Len(str) > n THEN SubSeq(str, 1, IF n > 3 THEN n - 3 ELSE 0) \o Ellipsis ELSE str

\* errorString.replace(/[_*[\]()~..|{}.!]/g, " ")
removeMarkdown(str) == [i \in 1..Len(str) |-> IF str[i] \in MarkdownChars THEN " " ELSE str[i]]

\* errorString.replace(/\s+/g, " ")
RECURSIVE collapseSpaces(_)
collapseSpaces(str) ==
    IF str = <<>> THEN <<>>
    ELSE IF str[1] \in Whitespace
    THEN <<" ">> \o collapseSpaces(Drop(str, RunLength(str, 1, Whitespace)))
    ELSE <<str[1]>> \o collapseSpaces(Tail(str))

\* String.prototype.trim of a string whose whitespace runs are single spaces
trim(str) ==
    LET from == IF str # <<>> /\ str[1] \in Whitespace THEN 2 ELSE 1
        to == IF str # <<>> /\ str[Len(str)] \in Whitespace THEN Len(str) - 1 ELSE Len(str)
    IN  SubSeq(str, from, to)

sanitizeErrorForTelegram(msg, n) ==
    IF msg = <<>> THEN UnknownError
    ELSE trim(collapseSpaces(removeMarkdown(
             truncate(replaceUrls(replaceArrays(replaceJson(msg))), n))))

InitSanitizer ==
    /\ blockchainEnabled = TRUE
    /\ VoteIdle /\ DelegationIdle /\ RelayIdle /\ StateMapIdle /\ LifecycleIdle /\ HistoryIdle /\ JoinIdle /\ GovernanceIdle
    /\ errorMsg \in RawErrors
    /\ maxLength \in MaxLengths
    /\ sanitized = NotSanitized

Sanitize ==
    /\ sanitized = NotSanitized
    /\ sanitized' = sanitizeErrorForTelegram(errorMsg, maxLength)
    /\ UNCHANGED <<errorMsg, maxLength, outsideSanitizer>>

NextSanitizer == Sanitize

SpecSanitizer == InitSanitizer /\ [][NextSanitizer]_vars

(***************************************************************************)
(* Properties of the sanitizer                                             *)
(***************************************************************************)
HasUrl(str) == \E i \in 1..Len(str) : UrlMatch(Drop(str, i - 1)) > 0

HasChar(str, c) == \E i \in 1..Len(str) : str[i] = c

\* C18 as stated: for every raw error string, the sanitized text has no "{",
\* no "[" and no "http", and is at most maxLength characters long.
C18_NoBracesNoHttp ==
    sanitized # NotSanitized =>
        /\ ~HasChar(sanitized, "{")
        /\ ~HasChar(sanitized, "[")
        /\ ~Includes(sanitized, <<"h", "t", "t", "p">>)
        /\ Len(sanitized) <= maxLength

\* C18: the sanitized text of a raw error string that is not empty has no
\* "{", no "[" and no URL (http:// or https:// followed by a character that
\* is not whitespace), and is at most maxLength characters long; the text
\* for the empty string is 'Unknown error' whatever maxLength is.
C18_NoBracesNoUrl ==
    sanitized # NotSanitized =>
        IF errorMsg = <<>> THEN sanitized = UnknownError
        ELSE /\ ~HasChar(sanitized, "{")
             /\ ~HasChar(sanitized, "[")
             /\ ~HasUrl(sanitized)
             /\ Len(sanitized) <= maxLength

\* a raw error string with an embedded JSON object and a URL, longer than
\* maxLength after the replacements, has been sanitized to a text that is
\* not empty
C18_Witness ==
    /\ sanitized # NotSanitized
    /\ sanitized # <<>>
    /\ Includes(errorMsg, JsonObject)
    /\ Includes(errorMsg, Url)
    /\ maxLength > 3
    /\ Len(replaceUrls(replaceArrays(replaceJson(errorMsg)))) > maxLength

(***************************************************************************)
(* BlockchainService.getProposalState against the governor's proposal.     *)
(* The chain moves on its own (blocks are mined, votes are counted, the    *)
(* proposal is canceled, queued, executed); every getProposalState call    *)
(* appends what it returned to reader.reports.                             *)
(***************************************************************************)
\* number of getProposalState calls
MaxReports == 3
\* last block mined
MaxBlock == 4
\* votes counted on each side at most
MaxTally == 1
\* proposal.startBlock and proposal.endBlock
StartBlock == 1
EndBlock == 2

\* what governor.state(proposalId) answers: the ordinal of the state
GovernorState ==
    IF lifecycle.executed THEN 7
    ELSE IF lifecycle.canceled THEN 2
    ELSE IF blockNumber <= StartBlock THEN 0
    ELSE IF blockNumber <= EndBlock THEN 1
    ELSE IF lifecycle.queued THEN 5
    ELSE IF lifecycle.forVotes > lifecycle.againstVotes THEN 4
    ELSE 3

\* faulty variant: the tallies are not looked at
inferStateIgnoresVotes(proposal, currentBlock, startBlock, endBlock) ==
    IF currentBlock < startBlock THEN "Pending"
    ELSE IF currentBlock >= startBlock /\ currentBlock <= endBlock THEN "Active"
    ELSE "Succeeded"

\* the fallback: the state inferred from proposals(proposalId) and
\* provider.getBlockNumber()
inferState(proposal, currentBlock, startBlock, endBlock) ==
    IF currentBlock < startBlock THEN "Pending"
    ELSE IF currentBlock >= startBlock /\ currentBlock <= endBlock THEN "Active"
    ELSE IF proposal.forVotes > proposal.againstVotes THEN "Succeeded"
    ELSE "Defeated"

InitLifecycle ==
    /\ blockchainEnabled \in BOOLEAN
    /\ VoteIdle /\ DelegationIdle /\ RelayIdle /\ StateMapIdle /\ SanitizerIdle
    /\ LifecycleIdle /\ HistoryIdle /\ JoinIdle /\ GovernanceIdle

\* the chain: a block is mined
MineBlock ==
    /\ blockNumber < MaxBlock
    /\ blockNumber' = blockNumber + 1
    /\ UNCHANGED <<blockchainEnabled, lifecycle, reader, outsideLifecycle>>

\* the chain: a vote is counted while the proposal is active
CountVote ==
    /\ GovernorState = ActiveState
    /\ \E side \in {"forVotes", "againstVotes"} :
        /\ lifecycle[side] < MaxTally
        /\ lifecycle' = [lifecycle EXCEPT ![side] = @ + 1]
    /\ UNCHANGED <<blockchainEnabled, blockNumber, reader, outsideLifecycle>>

\* the chain: the proposal is canceled before it is executed
Cancel ==
    /\ ~lifecycle.canceled /\ ~lifecycle.executed
    /\ lifecycle' = [lifecycle EXCEPT !.canceled = TRUE]
    /\ UNCHANGED <<blockchainEnabled, blockNumber, reader, outsideLifecycle>>

\* the chain: a succeeded proposal is queued
Queue ==
    /\ GovernorState = 4
    /\ lifecycle' = [lifecycle EXCEPT !.queued = TRUE]
    /\ UNCHANGED <<blockchainEnabled, blockNumber, reader, outsideLifecycle>>

\* the chain: a succeeded or queued proposal is executed
Execute ==
    /\ GovernorState \in {4, 5}
    /\ lifecycle' = [lifecycle EXCEPT !.executed = TRUE]
    /\ UNCHANGED <<blockchainEnabled, blockNumber, reader, outsideLifecycle>>

\* getProposalState returns state by way of path, having read seen
Report(state, path, seen) ==
    [pc |-> "idle", reports |-> Append(reader.reports, state), path |-> path, seen |-> seen]

\* getProposalState up to the answer of governor.state(proposalId)
GetProposalState ==
    /\ reader.pc = "idle"
    /\ Len(reader.reports) < MaxReports
    /\ \/ /\ ~blockchainEnabled
          /\ reader' = Report("Active", "disabled", NothingSeen)
       \/ /\ blockchainEnabled
          /\ reader' = Report(getProposalStateDescription(GovernorState), "primary",
                              [NothingSeen EXCEPT !.stateNum = GovernorState])
       \/ /\ blockchainEnabled
          \* governor.state(proposalId) rejects
          /\ reader' = [reader EXCEPT !.pc = "fallback", !.path = "none",
                                      !.seen = NothingSeen]
    /\ UNCHANGED <<blockchainEnabled, blockNumber, lifecycle, outsideLifecycle>>

\* the catch (stateError) block: governor.proposals and getBlockNumber
InferState ==
    /\ reader.pc = "fallback"
    /\ \/ reader' = Report(inferState(lifecycle, blockNumber, StartBlock, EndBlock),
                           "inferred",
                           [NothingSeen EXCEPT !.currentBlock = blockNumber,
                                               !.forVotes = lifecycle.forVotes,
                                               !.againstVotes = lifecycle.againstVotes])
       \* governor.proposals or provider.getBlockNumber rejects
       \/ reader' = Report("Unknown", "failed", NothingSeen)
    /\ UNCHANGED <<blockchainEnabled, blockNumber, lifecycle, outsideLifecycle>>

NextLifecycle ==
    \/ MineBlock
    \/ CountVote
    \/ Cancel
    \/ Queue
    \/ Execute
    \/ GetProposalState
    \/ InferState

SpecLifecycle == InitLifecycle /\ [][NextLifecycle]_vars

(***************************************************************************)
(* Properties of the lifecycle read                                        *)
(***************************************************************************)
\* the place of a reported state in the order
\* Pending, Active, {Succeeded, Defeated, Canceled, Expired, Queued}, Executed
Rank(state) ==
    CASE state = "Pending" -> 0
      [] state = "Active" -> 1
      [] state \in {"Succeeded", "Defeated", "Canceled", "Expired", "Queued"} -> 2
      [] state = "Executed" -> 3

\* C19: no state reported by getProposalState for the proposal, the
\* inferred ones included, is earlier in the order than a state reported
\* before it.
C19_ReportsMonotonic ==
    \A i, j \in 1..Len(reader.reports) :
        (i < j /\ reader.reports[i] # "Unknown" /\ reader.reports[j] # "Unknown")
            => Rank(reader.reports[i]) <= Rank(reader.reports[j])

(***************************************************************************)
(* Properties of the validator and of the meta-transaction tier            *)
(***************************************************************************)
\* the transaction of call c changed the votes
Recorded(c) == \E r \in ledger : r.tx = TxHash(c)
\* call c signed nothing and submitted nothing
Untouched(c) ==
    /\ call[c].tiers = <<>> /\ call[c].signer = "none"
    /\ call[c].sends = 0 /\ call[c].tx = "none"

\* C21, as claimed: a failed read of the proposal state, of the snapshot
\* block or of the voting power does not block the vote: the call goes on
\* to the submission tiers.
C21_ReadFailureInconclusive ==
    \A c \in Calls :
        (Done(c) /\ call[c].failedAt \in {"state", "votingPower"}) =>
            Attempted(c, VoteTiers[1])

C23_ChecksInOrder ==
    \A c \in Calls :
        /\ call[c].simulation # "none" => call[c].stateRead = ActiveState
        /\ call[c].powerBlock # "none" => call[c].simulation \in {"passed", "inconclusive"}
        /\ (call[c].stateRead # -1 /\ call[c].stateRead # ActiveState) =>
              Done(c) /\ call[c].simulation = "none" /\ call[c].powerBlock = "none"
        /\ call[c].simulation = "duplicate" =>
              Done(c) /\ call[c].powerBlock = "none" /\ call[c].powerRead = -1

\* the dry run found the duplicate on an Active proposal and the power was
\* not read
C23_Witness ==
    \E c \in Calls :
        /\ Done(c) /\ call[c].stateRead = ActiveState /\ call[c].simulation = "duplicate"
        /\ call[c].powerBlock = "none"

\* C24: when the gas estimation fails the tier goes on: the signed vote is
\* submitted with the fixed gas limit, and when that transaction is included
\* and confirmed castVote returns success with method meta-transaction.
C24_FixedGasFallback ==
    \A c \in Calls :
        /\ (Done(c) /\ call[c].gas = "fixed") => call[c].sends >= 1
        /\ (Done(c) /\ call[c].gas = "fixed" /\ call[c].tx = "ok" /\ call[c].failedAt = "none") =>
              call[c].result = Result(TRUE, "meta-transaction", NoError, TxHash(c))

\* the estimation failed, the one submission with the fixed gas limit was
\* included and castVote returned success
C24_Witness ==
    \E c \in Calls :
        /\ Done(c) /\ call[c].gas = "fixed" /\ call[c].sends = 1 /\ call[c].tx = "ok"
        /\ call[c].result.success /\ call[c].result.method = "meta-transaction"

(***************************************************************************)
(* The delegation methods in order, and the retry after the grant          *)
(***************************************************************************)
\* the steps of a token operation that has begun
DStep(d) ==
    \/ BalanceOf(d)
    \/ AdminDelegateFor(d)
    \/ SignDelegation(d)
    \/ DelegateBySig(d)
    \/ TransferTokens(d)
    \/ GetTokenBalance(d)
    \/ IsTokenDelegated(d)
    \/ HandleNewUserDelegation(d)

\* every chain call answers or fails, and the operation goes on
SpecDelegationFair ==
    InitDelegation /\ [][NextDelegation]_vars /\ \A d \in DCalls : WF_vars(DStep(d))

\* C25: delegateVotes tries adminDelegateFor first; delegateBySig is signed
\* only when the token has no adminDelegateFor or the call of it failed, and
\* a delegateVotes call that adminDelegateFor completed has signed and sent
\* nothing else.
C25_AdminDirectFirst ==
    \A d \in DCalls :
        dcall[d].kind = "delegate" =>
            /\ dcall[d].signer # "none" =>
                  \/ adminDelegateFor \in {"absent", "notOwner"}
                  \/ dcall[d].rpcFailed
            /\ dcall[d].result.method = "admin-delegation" =>
                  /\ adminDelegateFor = "works"
                  /\ dcall[d].signer = "none" /\ dcall[d].nonceRead = -1
                  /\ dcall[d].txs = 1

\* delegateVotes was completed by adminDelegateFor in one call, and by
\* delegateBySig in another after adminDelegateFor failed
C25_Witness ==
    /\ \E d \in DCalls :
          DDone(d) /\ dcall[d].kind = "delegate" /\ dcall[d].result.method = "admin-delegation"
    /\ \E d \in DCalls :
          /\ DDone(d) /\ dcall[d].kind = "delegate" /\ dcall[d].rpcFailed
          /\ dcall[d].result.method = "meta-transaction"

C27_SuccessOnlyAfterRead ==
    \A d \in DCalls :
        dcall[d].welcome.delegation = "success" =>
            /\ dcall[d].loopDelegated
            /\ dcall[d].result # NoDelegationResult
            /\ delegates[dcall[d].delegator] # ZeroAddress

\* a grant whose delegation was verified by the read after the first attempt
C27_Witness ==
    \E d \in DCalls :
        /\ DDone(d) /\ dcall[d].kind = "welcome" /\ dcall[d].attempt = 0
        /\ dcall[d].welcome.delegation = "success"
        /\ dcall[d].manager.delegationSuccess

LastReport == reader.reports[Len(reader.reports)]

\* C28: getProposalState infers the state only after governor.state threw;
\* the inferred state is Pending before startBlock, Active from startBlock to
\* endBlock, and after endBlock Succeeded when forVotes is above againstVotes
\* and Defeated otherwise; when the second path fails as well the answer is
\* 'Unknown'.  The primary path answers the name of the ordinal read.
C28_InferenceOnlyAfterPrimaryThrew ==
    /\ reader.path = "primary" =>
          /\ reader.seen.stateNum # -1 /\ reader.seen.currentBlock = -1
          /\ LastReport = LifecycleState(reader.seen.stateNum)
    /\ reader.path = "inferred" =>
          /\ blockchainEnabled
          /\ reader.seen.stateNum = -1
          /\ LastReport =
                 IF reader.seen.currentBlock < StartBlock THEN "Pending"
                 ELSE IF reader.seen.currentBlock <= EndBlock THEN "Active"
                 ELSE IF reader.seen.forVotes > reader.seen.againstVotes THEN "Succeeded"
                 ELSE "Defeated"
    /\ reader.path = "failed" =>
          /\ reader.seen = NothingSeen
          /\ LastReport = "Unknown"
    /\ reader.pc = "idle" /\ reader.reports # <<>> =>
          reader.path \in {"disabled", "primary", "inferred", "failed"}

\* governor.state threw and the state was inferred after endBlock from
\* tallies that are equal
C28_Witness ==
    /\ reader.path = "inferred"
    /\ reader.seen.currentBlock > EndBlock
    /\ reader.seen.forVotes = reader.seen.againstVotes
    /\ LastReport = "Defeated"

(***************************************************************************)
(* CommandHandler.handleVoteAction and the vote history (user_votes).      *)
(* The user is a member and the proposal is Active; castVote is taken by   *)
(* its outcomes: what it returned, whether the relay submitted the vote    *)
(* and with which support value.                                           *)
(***************************************************************************)
\* length of the vote-type strings tried
MaxVoteTypeLen == 2
\* the characters of the vote-type strings tried
VoteTypeChars == {"0", "1", "3", "x", "-", " "}
Digits == {"0", "1", "2", "3"}

\* the callback_data of the vote buttons ends in _1, _0 or _2
ButtonVoteTypes == {<<"1">>, <<"0">>, <<"2">>}

\* match[2] of /\/start vote_(.+)_(.+)/: what follows the last underscore,
\* at least one character
DeepLinkVoteTypes ==
    UNION {[1..n -> VoteTypeChars] : n \in 1..MaxVoteTypeLen}

\* voteType === '0' ? 'AGAINST' : voteType === '1' ? 'FOR' : 'ABSTAIN'
voteTypeDesc(voteType) ==
    IF voteType = <<"0">> THEN "AGAINST"
    ELSE IF voteType = <<"1">> THEN "FOR"
    ELSE "ABSTAIN"

DigitValue(c) == CASE c = "0" -> 0 [] c = "1" -> 1 [] c = "2" -> 2 [] c = "3" -> 3

RECURSIVE ToNumber(_, _)
ToNumber(digits, radix) ==
    IF digits = <<>> THEN 0
    ELSE ToNumber(SubSeq(digits, 1, Len(digits) - 1), radix) * radix
             + DigitValue(digits[Len(digits)])

\* parseInt(string): leading whitespace is skipped, then a sign, then the
\* prefix 0x (radix 16), then the longest run of digits; NaN without a digit
parseInt(str) ==
    LET unspaced == Drop(str, RunLength(str, 1, Whitespace))
        negative == unspaced # <<>> /\ unspaced[1] = "-"
        unsigned == IF negative THEN Tail(unspaced) ELSE unspaced
        hex == StartsWith(unsigned, <<"0", "x">>)
        body == IF hex THEN Drop(unsigned, 2) ELSE unsigned
        n == RunLength(body, 1, Digits)
        magnitude == ToNumber(SubSeq(body, 1, n), IF hex THEN 16 ELSE 10)
    IN  IF n = 0 THEN [isNaN |-> TRUE, value |-> 0]
        ELSE [isNaN |-> FALSE, value |-> IF negative THEN 0 - magnitude ELSE magnitude]

\* userWallet._signTypedData encodes support as a uint8: it throws for NaN
\* and for a value outside 0..255
Signable(support) == ~support.isNaN /\ support.value >= 0 /\ support.value <= 255

\* the errors the PIN callback of handleVoteAction can catch
InvalidPin == <<"Invalid", "PIN">>
SqliteError == <<"SQLITE_BUSY", ":", "database", "is", "locked">>
\* the ReferenceError of reading a let binding before its declaration
ReferenceError == <<"Cannot", "access", "currentVotingMsgId", "before", "initialization">>

\* the catch block of the PIN callback: what the user is told
voteCatchMessage(msg) ==
    IF Includes(msg, <<"already", "voted">>) THEN "alreadyVoted"
    ELSE IF Includes(msg, <<"Invalid", "PIN">>) THEN "invalidPin"
    ELSE IF Includes(msg, <<"insufficient", "funds">>) THEN "insufficientFunds"
    ELSE IF Includes(msg, <<"rejected">>) THEN "rejected"
    ELSE "couldNotProcess"

\* the branch taken when hasUserVotedOnProposal answered a row: it reads
\* currentVotingMsgId, a let binding of the enclosing block that is declared
\* after the branch, so the read throws before the message is sent
existingVoteBranchThrows == ReferenceError

\* what the user is told after castVote returned result
resultMessage(result) ==
    IF result = "validation" THEN "validationCheck"
    ELSE IF result \in {"meta-transaction", "simulation"} THEN "voteCast"
    ELSE IF result = "all-methods-failed" THEN "voteFailed"
    ELSE "none"

FlowTxHash(f) == <<"0xvote", f>>

\* the methods of the results of castVote that carry success: true
successMethods == {"meta-transaction", "simulation"}

\* faulty variant: the success branch is entered whatever castVote returned
afterCastVoteIgnoresSuccess(r) == "trackUserVote"

\* if (result && result.success): the success branch begins with
\* trackUserVote; every other branch only sends a message
afterCastVote(r) == IF r \in successMethods THEN "trackUserVote" ELSE "done"

InitHistory ==
    /\ blockchainEnabled \in BOOLEAN
    /\ VoteIdle /\ DelegationIdle /\ RelayIdle /\ StateMapIdle /\ SanitizerIdle
    /\ LifecycleIdle /\ HistoryIdle /\ JoinIdle /\ GovernanceIdle

\* handleVoteAction(chatId, userId, proposalId, voteType) up to the prompt
\* for the PIN, called from a vote button or from a /start vote deep link
HandleVoteAction(f) ==
    /\ flow[f].pc = "idle"
    /\ \E u \in Users, source \in {"callback", "deepLink"} :
         \E s \in IF source = "callback" THEN ButtonVoteTypes ELSE DeepLinkVoteTypes :
           flow' = [flow EXCEPT ![f] =
                       [@ EXCEPT !.pc = "awaitingVotePin", !.user = u, !.source = source,
                                 !.voteType = s, !.voteTypeDesc = voteTypeDesc(s)]]
    /\ UNCHANGED <<blockchainEnabled, userVotes, chainVoters, outsideHistory>>

\* the PIN callback up to castVote: decryptWallet, then
\* hasUserVotedOnProposal and the branch for an existing vote
VotePin(f) ==
    /\ flow[f].pc = "awaitingVotePin"
    /\ LET rec == flow[f]
           row == userVotes[rec.user]
       IN  \/ \E m \in {InvalidPin, SqliteError} :
                flow' = [flow EXCEPT ![f] =
                            [rec EXCEPT !.pc = "done", !.told = voteCatchMessage(m)]]
           \/ flow' = [flow EXCEPT ![f] =
                  IF row # NoVote
                  THEN [rec EXCEPT !.pc = "done", !.existingVote = row,
                                   !.told = voteCatchMessage(existingVoteBranchThrows)]
                  ELSE [rec EXCEPT !.pc = "castVote", !.support = parseInt(rec.voteType)]]
    /\ UNCHANGED <<blockchainEnabled, userVotes, chainVoters, outsideHistory>>

\* await this.blockchain.castVote(fullProposalId, userWallet,
\* parseInt(voteType)) and the message for a result that is not a success
FlowCastVote(f) ==
    /\ flow[f].pc = "castVote"
    /\ LET rec == flow[f]
           ended(r, sub) ==
               [rec EXCEPT !.pc = afterCastVote(r), !.result = r, !.submitted = sub,
                           !.told = IF r \in successMethods THEN "none" ELSE resultMessage(r)]
       IN  \/ /\ ~blockchainEnabled
              /\ flow' = [flow EXCEPT ![f] = ended("simulation", NotSubmitted)]
              /\ UNCHANGED chainVoters
           \/ \* the validator rejects, a read fails or the signature fails
              /\ blockchainEnabled
              /\ \E r \in {"validation", "system-error", "all-methods-failed"} :
                   flow' = [flow EXCEPT ![f] = ended(r, NotSubmitted)]
              /\ UNCHANGED chainVoters
           \/ \* the relay submits castVoteBySig(proposalId, support, v, r, s)
              /\ blockchainEnabled
              /\ Signable(rec.support)
              /\ IF rec.support.value \in {0, 1, 2} /\ rec.user \notin chainVoters
                 THEN /\ chainVoters' = chainVoters \cup {rec.user}
                      /\ flow' = [flow EXCEPT ![f] =
                                     ended("meta-transaction", <<rec.support.value>>)]
                 ELSE /\ UNCHANGED chainVoters
                      /\ \E r \in {"all-methods-failed"} \cup
                                  (IF rec.user \in chainVoters THEN {"validation"} ELSE {}) :
                           flow' = [flow EXCEPT ![f] = ended(r, <<rec.support.value>>)]
    /\ UNCHANGED <<blockchainEnabled, userVotes, outsideHistory>>

\* db.trackUserVote(userId, fullProposalId, parseInt(voteType), result.txHash):
\* INSERT OR REPLACE INTO user_votes, whose primary key is (telegram_id,
\* proposal_id); a failure is caught and the handler goes on
TrackUserVote(f) ==
    /\ flow[f].pc = "trackUserVote"
    /\ LET rec == flow[f]
           next == [rec EXCEPT !.pc = "rewardForVoting",
                               !.invocations = Append(@, "trackUserVote")]
       IN  \/ /\ userVotes' = [userVotes EXCEPT ![rec.user] =
                     [vote_type |-> rec.support, vote_timestamp |-> f,
                      tx_hash |-> FlowTxHash(f)]]
              /\ flow' = [flow EXCEPT ![f] =
                             [next EXCEPT !.replaced = userVotes[rec.user] # NoVote]]
           \/ /\ UNCHANGED userVotes
              /\ flow' = [flow EXCEPT ![f] = next]
    /\ UNCHANGED <<blockchainEnabled, chainVoters, outsideHistory>>

\* await this.gamification.rewardForVoting(address), which never throws, and
\* the message that the vote was cast
RewardForVoting(f) ==
    /\ flow[f].pc = "rewardForVoting"
    /\ flow' = [flow EXCEPT ![f] =
                   [@ EXCEPT !.pc = "done", !.invocations = Append(@, "rewardForVoting"),
                             !.told = resultMessage(flow[f].result)]]
    /\ UNCHANGED <<blockchainEnabled, userVotes, chainVoters, outsideHistory>>

NextHistory ==
    \/ \E f \in Flows : HandleVoteAction(f)
    \/ \E f \in Flows : VotePin(f)
    \/ \E f \in Flows : FlowCastVote(f)
    \/ \E f \in Flows : TrackUserVote(f)
    \/ \E f \in Flows : RewardForVoting(f)

SpecHistory == InitHistory /\ [][NextHistory]_vars

(***************************************************************************)
(* Properties of the vote history and of the support value.                *)
(***************************************************************************)
FlowDone(f) == flow[f].pc = "done"

\* the name the Governor gives a support value
SupportName(support) ==
    CASE support = 0 -> "AGAINST" [] support = 1 -> "FOR" [] support = 2 -> "ABSTAIN"
      [] OTHER -> "none"

\* C29: a recorded vote is created once and never changes: an attempt made
\* when the history already holds a vote of the user ends without a
\* submission to the chain and with the user told that they have already
\* voted, and no write replaces a stored row.
C29_RecordedVoteImmutable ==
    \A f \in Flows :
        /\ (FlowDone(f) /\ flow[f].existingVote # NoVote) =>
               /\ flow[f].submitted = NotSubmitted
               /\ flow[f].told = "alreadyVoted"
        /\ ~flow[f].replaced

\* C30: the support value submitted to the chain is 0, 1 or 2 and is the
\* vote type shown to the user, for every vote-type string that a button or
\* a deep link hands to handleVoteAction.
C30_SupportIsShownVoteType ==
    \A f \in Flows :
        \A i \in 1..Len(flow[f].submitted) :
            /\ flow[f].submitted[i] \in {0, 1, 2}
            /\ flow[f].voteTypeDesc = SupportName(flow[f].submitted[i])

(***************************************************************************)
(* The join dialogue: CommandHandler.handleJoinDAO, TextProcessor's PIN    *)
(* input and WalletManager.createWallet.  Every await of the code ends an  *)
(* action, so the handlers of several messages interleave as the event     *)
(* loop lets them.                                                         *)
(***************************************************************************)
\* ethers.Wallet.createRandom(): a key no other call generates
createRandom(t) == <<"0xwallet", t>>

InitJoin ==
    /\ blockchainEnabled \in BOOLEAN
    /\ VoteIdle /\ DelegationIdle /\ RelayIdle /\ StateMapIdle /\ SanitizerIdle
    /\ LifecycleIdle /\ HistoryIdle /\ JoinIdle /\ GovernanceIdle

\* handleJoinDAO(msg) in a private chat, up to await this.wallets.hasWallet
HandleJoinDAO(t) ==
    /\ task[t].pc = "idle"
    /\ \E u \in Users :
         task' = [task EXCEPT ![t] = [@ EXCEPT !.pc = "hasWallet", !.kind = "join", !.user = u]]
    /\ UNCHANGED <<usersTable, walletFiles, conversationStates, invoked, outsideJoin>>

\* hasWallet answered: a member is told so, anyone else is sent the prompt
JoinHasWallet(t) ==
    /\ task[t].pc = "hasWallet"
    /\ task' = [task EXCEPT ![t] =
                   IF usersTable[task[t].user] # NoAddress
                   THEN [@ EXCEPT !.pc = "done", !.told = "alreadyMember"]
                   ELSE [@ EXCEPT !.pc = "prompt"]]
    /\ UNCHANGED <<usersTable, walletFiles, conversationStates, invoked, outsideJoin>>

\* the prompt was sent: this.textProcessor.setupAwaitingPin(userId, callback)
SetupAwaitingPin(t) ==
    /\ task[t].pc = "prompt"
    /\ LET registration == invoked.registered + 1
       IN  /\ invoked' = [invoked EXCEPT !.registered = registration]
           /\ conversationStates' =
                  [conversationStates EXCEPT ![task[t].user] =
                      [state |-> "awaiting_pin", callback |-> registration]]
    /\ task' = [task EXCEPT ![t] = [@ EXCEPT !.pc = "done", !.told = "enterPin"]]
    /\ UNCHANGED <<usersTable, walletFiles, outsideJoin>>

\* processMessage(msg, bot) for a text that is no menu button: in state
\* awaiting_pin handlePinInput calls executeCallback, which starts
\* state.callback(pin); in state normal the text goes to the AI service
ProcessMessage(t) ==
    /\ task[t].pc = "idle"
    /\ \E u \in Users :
         LET state == conversationStates[u]
         IN  IF state.state = "awaiting_pin" /\ state.callback # 0
             THEN /\ invoked' = [invoked EXCEPT !.callback[state.callback] = @ + 1]
                  /\ task' = [task EXCEPT ![t] =
                                 [@ EXCEPT !.pc = "getWalletAddress", !.kind = "pin", !.user = u]]
             ELSE /\ UNCHANGED invoked
                  /\ task' = [task EXCEPT ![t] =
                                 [@ EXCEPT !.pc = "done", !.kind = "text", !.user = u,
                                           !.told = "aiResponse"]]
    /\ UNCHANGED <<usersTable, walletFiles, conversationStates, outsideJoin>>

\* createWallet: getWalletAddress answered; an existing address is returned,
\* otherwise a wallet is generated and encrypted
GetWalletAddress(t) ==
    /\ task[t].pc = "getWalletAddress"
    /\ LET existingAddress == usersTable[task[t].user]
       IN  task' = [task EXCEPT ![t] =
                       IF existingAddress # NoAddress
                       THEN [@ EXCEPT !.pc = "sendWelcomeTokens", !.address = existingAddress]
                       ELSE [@ EXCEPT !.pc = "writeFile", !.wallet = createRandom(t)]]
    /\ UNCHANGED <<usersTable, walletFiles, conversationStates, invoked, outsideJoin>>

\* createWallet: fs.writeFileSync of the encrypted wallet, then the INSERT
\* is handed to the database
WriteWalletFile(t) ==
    /\ task[t].pc = "writeFile"
    /\ walletFiles' = [walletFiles EXCEPT ![task[t].user] = task[t].wallet]
    /\ task' = [task EXCEPT ![t] = [@ EXCEPT !.pc = "insert"]]
    /\ UNCHANGED <<usersTable, conversationStates, invoked, outsideJoin>>

\* createWallet: INSERT INTO users; telegram_id is the primary key, so a
\* second row is refused and the callback's catch reports the error
InsertUser(t) ==
    /\ task[t].pc = "insert"
    /\ IF usersTable[task[t].user] = NoAddress
       THEN /\ usersTable' = [usersTable EXCEPT ![task[t].user] = task[t].wallet]
            /\ task' = [task EXCEPT ![t] =
                           [@ EXCEPT !.pc = "sendWelcomeTokens", !.address = task[t].wallet]]
       ELSE /\ UNCHANGED usersTable
            /\ task' = [task EXCEPT ![t] = [@ EXCEPT !.pc = "resetState", !.told = "errorJoining"]]
    /\ UNCHANGED <<walletFiles, conversationStates, invoked, outsideJoin>>

\* the callback calls this.blockchain.sendWelcomeTokens(address, userId);
\* the welcome message follows, or a status edit throws into the catch
JoinSendWelcomeTokens(t) ==
    /\ task[t].pc = "sendWelcomeTokens"
    /\ invoked' = [invoked EXCEPT !.sendWelcomeTokens[task[t].user] = @ + 1]
    /\ \E told \in {"welcome", "errorJoining"} :
         task' = [task EXCEPT ![t] = [@ EXCEPT !.pc = "resetState", !.told = told]]
    /\ UNCHANGED <<usersTable, walletFiles, conversationStates, outsideJoin>>

\* handlePinInput after the callback completed: stateManager.resetState
ResetState(t) ==
    /\ task[t].pc = "resetState"
    /\ conversationStates' = [conversationStates EXCEPT ![task[t].user] = NormalState]
    /\ task' = [task EXCEPT ![t] = [@ EXCEPT !.pc = "done"]]
    /\ UNCHANGED <<usersTable, walletFiles, invoked, outsideJoin>>

NextJoin ==
    \/ \E t \in Tasks : HandleJoinDAO(t)
    \/ \E t \in Tasks : JoinHasWallet(t)
    \/ \E t \in Tasks : SetupAwaitingPin(t)
    \/ \E t \in Tasks : ProcessMessage(t)
    \/ \E t \in Tasks : GetWalletAddress(t)
    \/ \E t \in Tasks : WriteWalletFile(t)
    \/ \E t \in Tasks : InsertUser(t)
    \/ \E t \in Tasks : JoinSendWelcomeTokens(t)
    \/ \E t \in Tasks : ResetState(t)

SpecJoin == InitJoin /\ [][NextJoin]_vars

(***************************************************************************)
(* Properties of the join dialogue.                                        *)
(***************************************************************************)
InCreateWallet(t) == task[t].pc \in {"getWalletAddress", "writeFile", "insert"}

\* C31: when no createWallet call is in flight, the address in the users
\* table of every user who has one is the address of the key in that user's
\* wallet file.
C31_TableMatchesWalletFile ==
    (\A t \in Tasks : ~InCreateWallet(t)) =>
        \A u \in Users : usersTable[u] # NoAddress => walletFiles[u] = usersTable[u]

\* C32: sendWelcomeTokens is invoked at most once for each user.
C32_WelcomeTokensOnce ==
    \A u \in Users : invoked.sendWelcomeTokens[u] <= 1

\* C34: a registered PIN callback is executed at most once.
C34_CallbackOncePerRegistration ==
    \A r \in Tasks : invoked.callback[r] <= 1

(***************************************************************************)
(* The answer of BlockchainManager.sendWelcomeTokens.                      *)
(***************************************************************************)
\* C33: sendWelcomeTokens returns success: true only after the transfer to
\* the user was confirmed: never when transferTokens threw or when the
\* service answered with status 'error'.
C33_SuccessOnlyAfterTransfer ==
    \A d \in DCalls :
        (dcall[d].kind = "welcome" /\ dcall[d].manager.success) =>
            /\ dcall[d].transferTx # NoTx
            /\ dcall[d].welcome.status = "success"

(***************************************************************************)
(* Rewards and history records follow successful votes only.               *)
(***************************************************************************)
\* C35: trackUserVote and rewardForVoting are invoked for a vote only after
\* castVote returned success: true for it, never after a validation,
\* all-methods-failed or other failure result.
C35_RewardOnlyAfterSuccess ==
    \A f \in Flows :
        flow[f].invocations # <<>> => flow[f].result \in successMethods

\* one vote went through and was recorded and rewarded, another was refused
\* by the validator and left no record and no reward
C35_Witness ==
    \E f, g \in Flows :
        /\ FlowDone(f) /\ flow[f].result = "meta-transaction"
        /\ flow[f].invocations = <<"trackUserVote", "rewardForVoting">>
        /\ FlowDone(g) /\ flow[g].result = "validation"
        /\ flow[g].invocations = <<>>

(***************************************************************************)
(* The monitored proposal on chain and                                     *)
(* BlockchainManager.verifyApprovalsAndFinalizeProposal.                   *)
(***************************************************************************)
\* the states a Governor proposal can take next
NextGovernorStates(s) ==
    CASE s = "Pending" -> {"Active"}
      [] s = "Active" -> {"Succeeded", "Defeated"}
      [] s = "Succeeded" -> {"Queued", "Executed"}
      [] s = "Queued" -> {"Executed", "Expired"}
      [] OTHER -> {}

\* what getProposalState answers: 'Active' when the blockchain features are
\* disabled, else the name of the governor's state, or 'Unknown' when the
\* reads fail
ProposalStateReads ==
    IF blockchainEnabled THEN {governorState, "Unknown"} ELSE {"Active"}

\* the object getProposalById builds from governor.proposals(proposalId)
ProposalById ==
    [id |-> "proposal-1", proposalId |-> "proposal-1", proposer |-> "0xproposer",
     description |-> "", startBlock |-> "1", endBlock |-> "3",
     votes |-> [forVotes |-> "0", againstVotes |-> "0", abstainVotes |-> "0"]]

\* executeProposal: !proposal || !proposal.descriptionHash
DetailsMissing(proposal) == "descriptionHash" \notin DOMAIN proposal

\* faulty variant: every state is taken to allow the execution
finalizableAnyState(state) == TRUE

\* verifyApprovalsAndFinalizeProposal: the negation of if (state !== 'Succeeded')
finalizable(state) == state = "Succeeded"

InitFinalize ==
    /\ blockchainEnabled \in BOOLEAN
    /\ VoteIdle /\ DelegationIdle /\ RelayIdle /\ StateMapIdle /\ SanitizerIdle
    /\ LifecycleIdle /\ HistoryIdle /\ JoinIdle /\ GovernanceIdle

\* the voting delay or period ends, the proposal is queued, executed by
\* somebody, or its timelock grace period passes
GovernorAdvances ==
    /\ \E s \in NextGovernorStates(governorState) : governorState' = s
    /\ UNCHANGED <<blockchainEnabled, proposalCache, run, announced, cacheWriter, finalize,
                   outsideGovernance>>

\* verifyApprovalsAndFinalizeProposal(proposalId) up to getProposalById: a
\* failed read answers null
VerifyApprovalsAndFinalizeProposal(f) ==
    /\ finalize[f].pc = "idle"
    /\ \/ finalize' = [finalize EXCEPT ![f] = [@ EXCEPT !.pc = "getProposalState"]]
       \/ finalize' = [finalize EXCEPT ![f] =
                          [@ EXCEPT !.pc = "done", !.reason = "Proposal not found"]]
    /\ UNCHANGED <<blockchainEnabled, governorState, proposalCache, run, announced,
                   cacheWriter, outsideGovernance>>

\* const state = await this.service.getProposalState(proposalId) and the
\* test of the state
FinalizeReadsState(f) ==
    /\ finalize[f].pc = "getProposalState"
    /\ \E state \in ProposalStateReads :
         finalize' = [finalize EXCEPT ![f] =
             IF finalizable(state)
             THEN [@ EXCEPT !.pc = "executeProposal", !.state = state]
             ELSE [@ EXCEPT !.pc = "done", !.state = state, !.success = TRUE,
                            !.reason = IF state = "Executed" THEN "already executed"
                                       ELSE "cannot be executed"]]
    /\ UNCHANGED <<blockchainEnabled, governorState, proposalCache, run, announced,
                   cacheWriter, outsideGovernance>>

\* BlockchainService.executeProposal: it reads the state again and the
\* proposal's details, and calls governor.execute only when the state is
\* Succeeded and the details hold a descriptionHash
ExecuteProposal(f) ==
    /\ finalize[f].pc = "executeProposal"
    /\ IF ~blockchainEnabled
       THEN /\ finalize' = [finalize EXCEPT ![f] =
                   [@ EXCEPT !.pc = "done", !.success = TRUE, !.executed = TRUE]]
            /\ UNCHANGED governorState
       ELSE \E stateNow \in ProposalStateReads :
              IF stateNow # "Succeeded" \/ DetailsMissing(ProposalById)
              THEN /\ finalize' = [finalize EXCEPT ![f] = [@ EXCEPT !.pc = "execError"]]
                   /\ UNCHANGED governorState
              ELSE /\ finalize' = [finalize EXCEPT ![f] =
                          [@ EXCEPT !.pc = "done", !.submitted = TRUE, !.success = TRUE,
                                    !.executed = TRUE]]
                   /\ governorState' = "Executed"
    /\ UNCHANGED <<blockchainEnabled, proposalCache, run, announced, cacheWriter,
                   outsideGovernance>>

\* catch (execError): the state is read once more
FinalizeAfterExecError(f) ==
    /\ finalize[f].pc = "execError"
    /\ \E newState \in ProposalStateReads :
         finalize' = [finalize EXCEPT ![f] =
             IF newState = "Executed"
             THEN [@ EXCEPT !.pc = "done", !.success = TRUE, !.executed = TRUE,
                            !.reason = "executed by someone else"]
             ELSE [@ EXCEPT !.pc = "done", !.reason = "Failed to execute proposal"]]
    /\ UNCHANGED <<blockchainEnabled, governorState, proposalCache, run, announced,
                   cacheWriter, outsideGovernance>>

NextFinalize ==
    \/ GovernorAdvances
    \/ \E f \in Finalizers : VerifyApprovalsAndFinalizeProposal(f)
    \/ \E f \in Finalizers : FinalizeReadsState(f)
    \/ \E f \in Finalizers : ExecuteProposal(f)
    \/ \E f \in Finalizers : FinalizeAfterExecError(f)

SpecFinalize == InitFinalize /\ [][NextFinalize]_vars

\* C36: the execute transaction is submitted only by a call that read the
\* state Succeeded; a call that read any other state, Executed included,
\* returns executed: false and submits nothing.
C36_ExecuteOnlySucceeded ==
    \A f \in Finalizers :
        /\ finalize[f].submitted => finalize[f].state = "Succeeded"
        /\ (finalize[f].pc = "done" /\ finalize[f].state \notin {"none", "Succeeded"}) =>
               ~finalize[f].executed /\ ~finalize[f].submitted

\* the proposal was executed by somebody else, one call read Executed and
\* answered executed: false, another read Succeeded and went on to
\* executeProposal
C36_Witness ==
    \E f, g \in Finalizers :
        /\ finalize[f].pc = "done" /\ finalize[f].state = "Executed"
        /\ ~finalize[f].executed /\ ~finalize[f].submitted
        /\ finalize[f].reason = "already executed"
        /\ finalize[g].state = "Succeeded" /\ finalize[g].pc = "done"

(***************************************************************************)
(* ProposalMonitor: the runs of checkProposalStates against the proposal   *)
(* cache.  The monitor and the bot work: getAllProposals answers with the  *)
(* governor's state and bot.sendMessage delivers.                          *)
(***************************************************************************)
\* ProposalMonitor.isSignificantStateChange(oldState, newState)
isSignificantStateChange(oldState, newState) ==
    CASE oldState = "Active" -> newState \in {"Succeeded", "Defeated", "Expired"}
      [] oldState = "Succeeded" -> newState \in {"Executed", "Expired"}
      [] oldState = NoRow -> newState \in {"Active"}
      [] OTHER -> FALSE

\* notifyProposalStateChange: the switch on proposal.state leaves a message
hasMessage(state, oldState) ==
    \/ state \in {"Succeeded", "Defeated", "Executed", "Expired"}
    \/ state = "Active" /\ oldState = NoRow

\* DatabaseService.hasProposalStateChanged(proposalId, newState) on the row
hasProposalStateChanged(row, newState) ==
    IF row # NoRow THEN [changed |-> row # newState, oldState |-> row]
    ELSE [changed |-> TRUE, oldState |-> NoRow]

InitMonitor ==
    /\ blockchainEnabled = TRUE
    /\ VoteIdle /\ DelegationIdle /\ RelayIdle /\ StateMapIdle /\ SanitizerIdle
    /\ LifecycleIdle /\ HistoryIdle /\ JoinIdle /\ GovernanceIdle

\* a run of checkProposalStates begins (at startMonitoring or at a tick of
\* the interval, whether the run before has ended or not): getAllProposals
\* answers with the proposal in its present state
CheckProposalStates(r) ==
    /\ run[r].pc = "idle"
    /\ run' = [run EXCEPT ![r] =
                  [IdleRun EXCEPT !.pc = "hasProposalStateChanged", !.state = governorState]]
    /\ UNCHANGED <<blockchainEnabled, governorState, proposalCache, announced, cacheWriter,
                   finalize, outsideGovernance>>

\* checkProposalStateChange: await this.db.hasProposalStateChanged; a
\* database error leaves { changed: false, oldState: null }
HasProposalStateChanged(r) ==
    /\ run[r].pc = "hasProposalStateChanged"
    /\ \E stateChange \in {hasProposalStateChanged(proposalCache, run[r].state),
                           [changed |-> FALSE, oldState |-> NoRow]} :
         run' = [run EXCEPT ![r] =
                    [@ EXCEPT !.pc = "updateProposalCache", !.changed = stateChange.changed,
                              !.oldState = stateChange.oldState]]
    /\ UNCHANGED <<blockchainEnabled, governorState, proposalCache, announced, cacheWriter,
                   finalize, outsideGovernance>>

\* checkProposalStateChange: await this.db.updateProposalCache(proposal),
\* whose failure is logged, then the test for a significant change
UpdateProposalCache(r) ==
    /\ run[r].pc = "updateProposalCache"
    /\ \/ proposalCache' = run[r].state
       \/ UNCHANGED proposalCache
    /\ run' = [run EXCEPT ![r] =
                  IF run[r].changed /\ isSignificantStateChange(run[r].oldState, run[r].state)
                  THEN [@ EXCEPT !.pc = "notify"]
                  ELSE IdleRun]
    /\ UNCHANGED <<blockchainEnabled, governorState, announced, cacheWriter, finalize,
                   outsideGovernance>>

\* notifyProposalStateChange(proposal, oldState): the message goes to the
\* community group
NotifyProposalStateChange(r) ==
    /\ run[r].pc = "notify"
    /\ announced' =
           IF hasMessage(run[r].state, run[r].oldState)
           THEN [announced EXCEPT ![run[r].state] = Min(@ + 1, MaxAnnounced)]
           ELSE announced
    /\ run' = [run EXCEPT ![r] = IdleRun]
    /\ UNCHANGED <<blockchainEnabled, governorState, proposalCache, cacheWriter, finalize,
                   outsideGovernance>>

\* handleVoteAction after a successful vote: await
\* this.blockchain.getProposalInfo(fullProposalId)
VoteReadsProposalInfo ==
    /\ cacheWriter.pc = "idle"
    /\ governorState # "Pending"
    /\ cacheWriter' = [pc |-> "updateProposalCache", state |-> governorState]
    /\ UNCHANGED <<blockchainEnabled, governorState, proposalCache, run, announced, finalize,
                   outsideGovernance>>

\* handleVoteAction: await this.db.updateProposalCache(updatedProposal)
VoteUpdatesProposalCache ==
    /\ cacheWriter.pc = "updateProposalCache"
    /\ proposalCache' = cacheWriter.state
    /\ cacheWriter' = IdleWriter
    /\ UNCHANGED <<blockchainEnabled, governorState, run, announced, finalize,
                   outsideGovernance>>

RunStep(r) ==
    \/ CheckProposalStates(r)
    \/ HasProposalStateChanged(r)
    \/ UpdateProposalCache(r)
    \/ NotifyProposalStateChange(r)

NextMonitor ==
    \/ GovernorAdvances
    \/ \E r \in Runs : CheckProposalStates(r)
    \/ \E r \in Runs : HasProposalStateChanged(r)
    \/ \E r \in Runs : UpdateProposalCache(r)
    \/ \E r \in Runs : NotifyProposalStateChange(r)
    \/ VoteReadsProposalInfo
    \/ VoteUpdatesProposalCache

\* the interval keeps starting runs and every run proceeds
SpecMonitor ==
    InitMonitor /\ [][NextMonitor]_vars /\ \A r \in Runs : WF_vars(RunStep(r))

\* C37: every proposal state is announced to the community group at most
\* once, also when runs of checkProposalStates overlap.
C37_AnnouncedAtMostOnce ==
    \A s \in GovernorStates : announced[s] <= 1

\* C38: a proposal that reaches Succeeded, Defeated, Expired or Executed on
\* chain is eventually announced to the community group in that state.
C38_FinalStateAnnounced ==
    \A s \in {"Succeeded", "Defeated", "Expired", "Executed"} :
        (governorState = s) ~> (announced[s] > 0)


=============================================================================
